---- MODULE Spec2Model ----
(***************************************************************************)
(* Verification model of the wallet tracker bot (src/unnamed/part_000):    *)
(*   - the rate gate               checkRateLimit                          *)
(*   - the resilient fetch client  fetchWithRetry                          *)
(*   - the poller                  the setInterval monitor, /add, /delete, *)
(*                                 comparePositions, updateWalletPnL       *)
(* Each component has its own specification (SpecRate, SpecFetch, Spec);   *)
(* the variables of the other components stay at their initial values.     *)
(*                                                                         *)
(* Time is counted in abstract units.  The durations of the program        *)
(* (60000 ms rate window, CACHE_DURATION, ...) are scaled down to a few    *)
(* units, and the capacity constants (RATE_LIMIT_PER_USER,                 *)
(* MAX_CONCURRENT_REQUESTS) to small numbers, so that the limits are       *)
(* reached within the explored runs.                                       *)
(***************************************************************************)
EXTENDS Integers, Sequences, FiniteSets, TLC

\* ------------------------------------------------------------------ bounds
MaxTicks == 2           \* Spec: monitor callbacks started
MaxLiveTicks == 2       \* Spec: monitor callbacks running at the same time
MaxChanges == 1         \* Spec: changes of the upstream positions
MaxCommands == 2        \* Spec: /add and /delete commands received
RateMaxTime == 5        \* SpecRate: the clock stops advancing here
FetchMaxTime == 3       \* SpecFetch: the clock stops advancing here
NumCalls == 3           \* fetchWithRetry invocations explored by SpecFetch

\* ------------------------------------------------------- program constants
RATE_LIMIT_PER_USER == 2        \* CONFIG.RATE_LIMIT_PER_USER (30), scaled
RATE_WINDOW == 3                \* the literal 60000 ms of checkRateLimit, scaled

Users == {"u1", "u2"}
WhitelistFile == {"u2"}         \* the content of whitelist.json
NoEntry == [none |-> TRUE]      \* Map.get(...) === undefined

VARIABLES
    now,            \* Date.now()
    rateLimits,     \* Map userId -> {requests, blocked}
    admitLog,       \* history: per user, the times of all admitted calls
    lastCall,       \* history: per user, the last checkRateLimit call
    cache,          \* Map url -> {data, timestamp}
    activeRequests, \* the semaphore counter
    requestQueue,   \* the resolvers of the callers waiting at the gate
    calls,          \* the fetchWithRetry invocations and where each stands
    microtasks,     \* the promise jobs queued in the current turn of the event loop
    upstreamLog,    \* history: per url, the invocations of fetch(url)
    lastSuccess,    \* history: per url, the last successful response
    attemptLog,     \* history: per invocation, its calls of fetch(url)
    watchlist,      \* watchlist.json: userId -> {address -> label}
    previousStates, \* address -> last stored snapshot
    walletPnL,      \* address -> P&L state
    tradeEventsByWallet,    \* address -> chart markers
    upstream,       \* what the positions source holds for each address
    ticks,          \* the running monitor callbacks and their per-address tasks
    adds,           \* the /add handlers awaiting their initial fetch
    counters,       \* history: ticks started, commands, upstream changes and closes,
                    \* and per address the changes made before its last fetch
    timers,         \* when the hourly event cleanup and the daily P&L pruning fire next
    stats           \* address -> what getWalletPnLStats returned last

rateVars == <<rateLimits, admitLog, lastCall>>
fetchVars == <<cache, activeRequests, requestQueue, calls, microtasks,
               upstreamLog, lastSuccess, attemptLog>>
otherVars == <<timers, stats>>
monVars == <<watchlist, previousStates, walletPnL, tradeEventsByWallet,
             upstream, ticks, adds, counters, timers, stats>>
vars == <<now, rateLimits, admitLog, lastCall, cache, activeRequests,
          requestQueue, calls, microtasks, upstreamLog, lastSuccess, attemptLog,
          watchlist, previousStates, walletPnL, tradeEventsByWallet,
          upstream, ticks, adds, counters, timers, stats>>

\* ------------------------------------------------------------------ clock
Advance(max) ==
    /\ now < max
    /\ now' = now + 1

\* -------------------------------------------------------------- rate gate
isWhitelisted(userId) == userId \in WhitelistFile

\* getUserLimits(userId).rateLimit; -1 stands for Infinity
UserRateLimit(userId) ==
    IF isWhitelisted(userId) THEN -1 ELSE RATE_LIMIT_PER_USER

\* requests.filter(time => now - time < 60000)
RecentRequests(requests, t) ==
    SelectSeq(requests, LAMBDA time : t - time < RATE_WINDOW)

\* a plausible slip: the comparison of line 488 admits one call too many
RateAdmitsOffByOne(userId, t) ==
    LET old == rateLimits[userId]
        kept == IF old = NoEntry THEN <<>> ELSE RecentRequests(old.requests, t)
    IN  Len(kept) <= UserRateLimit(userId)

\* a plausible slip: a caller once rejected stays rejected while the stored
\* flag says blocked
RateAdmitsSticky(userId, t) ==
    LET old == rateLimits[userId]
        kept == IF old = NoEntry THEN <<>> ELSE RecentRequests(old.requests, t)
    IN  /\ Len(kept) < UserRateLimit(userId)
        /\ old # NoEntry => ~old.blocked

\* the value checkRateLimit returns for a call at time t:
\* !(userLimits.requests.length >= limits.rateLimit) after the filter
RateAdmits(userId, t) ==
    LET old == rateLimits[userId]
        kept == IF old = NoEntry THEN <<>> ELSE RecentRequests(old.requests, t)
    IN  Len(kept) < UserRateLimit(userId)

\* the entry rateLimits holds for the user after a call at time t
RateEntryAfter(userId, t) ==
    LET old == rateLimits[userId]
        kept == IF old = NoEntry THEN <<>> ELSE RecentRequests(old.requests, t)
    IN  IF ~RateAdmits(userId, t)
        THEN \* rejected: only an object already in the map is mutated
             IF old = NoEntry THEN NoEntry
             ELSE [requests |-> kept, blocked |-> TRUE]
        ELSE [requests |-> Append(kept, t), blocked |-> FALSE]

\* the admitted calls of the history that lie in the window ending at t
AdmitsInWindow(userId, t) ==
    {i \in 1..Len(admitLog[userId]) :
        /\ admitLog[userId][i] <= t
        /\ t - admitLog[userId][i] < RATE_WINDOW}

NoCall == [time |-> -1, admitted |-> FALSE, before |-> 0, prev |-> -1,
           prevAdmitted |-> FALSE]

checkRateLimit(userId) ==
    /\ IF UserRateLimit(userId) = -1
       THEN \* privileged caller: always admitted, no bookkeeping
            /\ UNCHANGED <<rateLimits, admitLog>>
            /\ lastCall' = [lastCall EXCEPT ![userId] =
                   [time |-> now, admitted |-> TRUE,
                    before |-> Cardinality(AdmitsInWindow(userId, now)),
                    prev |-> lastCall[userId].time,
                    prevAdmitted |-> lastCall[userId].admitted]]
       ELSE /\ rateLimits' = [rateLimits EXCEPT ![userId] = RateEntryAfter(userId, now)]
            /\ admitLog' = [admitLog EXCEPT ![userId] =
                   IF RateAdmits(userId, now) THEN Append(@, now) ELSE @]
            /\ lastCall' = [lastCall EXCEPT ![userId] =
                   [time |-> now, admitted |-> RateAdmits(userId, now),
                    before |-> Cardinality(AdmitsInWindow(userId, now)),
                    prev |-> lastCall[userId].time,
                    prevAdmitted |-> lastCall[userId].admitted]]
    /\ UNCHANGED <<now, fetchVars, monVars>>

RateIdle ==
    /\ rateLimits = [u \in Users |-> NoEntry]
    /\ admitLog = [u \in Users |-> <<>>]
    /\ lastCall = [u \in Users |-> NoCall]

\* ----------------------------------------------------------- fetch client
MAX_CONCURRENT_REQUESTS == 2    \* CONFIG.MAX_CONCURRENT_REQUESTS (10), scaled
RETRY_ATTEMPTS == 1             \* CONFIG.RETRY_ATTEMPTS (3), scaled
CACHE_DURATION == 2             \* CONFIG.CACHE_DURATION (30000 ms), scaled
RETRY_DELAY == 1                \* CONFIG.RETRY_DELAY (2000 ms), scaled

Urls == {"account", "candles"}  \* API_URL_BASE + address, CANDLE_API + query
CallIds == 1..NumCalls

\* pc of an invocation (the innermost frame of its retry chain):
\*   idle       not called yet
\*   queued     awaiting its resolver in requestQueue            (line 510)
\*   woken      resolver called, continuation queued as a promise job
\*   fetching   holds a slot, awaiting fetch / response.json     (519-530)
\*   retrywait  holds the slot of the failed attempt, awaiting RETRY_DELAY (542)
\*   done / failed   returned / thrown, the caller has not continued yet
\*   over       the caller has taken the result
\* n: invocations so far; last: time of the latest one; close: some
\* invocation came less than CACHE_DURATION after the one before it
NoUpstream == [n |-> 0, last |-> -1, close |-> FALSE]

\* n: calls of fetch(url) the invocation has made; last: time of the latest
\* one; failedAt: time the latest one failed
NoAttempt == [n |-> 0, last |-> -1, failedAt |-> -1]

IdleCall == [pc |-> "idle", url |-> "none", retries |-> 0, result |-> -1]

OverCall == [pc |-> "over", url |-> "none", retries |-> 0, result |-> -1]

FetchIdle ==
    /\ cache = [u \in Urls |-> NoEntry]
    /\ activeRequests = 0
    /\ requestQueue = <<>>
    /\ calls = [c \in CallIds |-> IdleCall]
    /\ microtasks = <<>>
    /\ upstreamLog = [u \in Urls |-> NoUpstream]
    /\ lastSuccess = [u \in Urls |-> NoEntry]
    /\ attemptLog = [c \in CallIds |-> NoAttempt]

\* history of the transport: fetch(url) is invoked at time t
LogUpstream(log, t) ==
    [n |-> log.n + 1, last |-> t,
     close |-> log.close \/ (log.last # -1 /\ t - log.last < CACHE_DURATION)]

\* the part of the state one synchronous segment of fetchWithRetry works on
Gate == [active |-> activeRequests, queue |-> requestQueue, calls |-> calls,
         micro |-> microtasks, log |-> upstreamLog, attempts |-> attemptLog]

SetGate(g) ==
    /\ activeRequests' = g.active
    /\ requestQueue' = g.queue
    /\ calls' = g.calls
    /\ microtasks' = g.micro
    /\ upstreamLog' = g.log
    /\ attemptLog' = g.attempts

\* a plausible slip: an entry is served however old it is
CacheValidNoExpiry(url, t) == cache[url] # NoEntry

\* cachedResult && Date.now() - cachedResult.timestamp < CONFIG.CACHE_DURATION
CacheValid(url, t) ==
    /\ cache[url] # NoEntry
    /\ t - cache[url].timestamp < CACHE_DURATION

\* a plausible slip: the gate lets one caller too many through
GateFullOffByOne(active) == active > MAX_CONCURRENT_REQUESTS

\* activeRequests >= CONFIG.MAX_CONCURRENT_REQUESTS
GateFull(active) == active >= MAX_CONCURRENT_REQUESTS

\* fetchWithRetry(url, options, retries) from its first line to its first await
Enter(g, c, url, retries) ==
    IF CacheValid(url, now)
    THEN [g EXCEPT !.calls[c] = [pc |-> "done", url |-> url, retries |-> 0,
                                 result |-> cache[url].data]]
    ELSE IF GateFull(g.active)
    THEN [g EXCEPT !.calls[c] = [pc |-> "queued", url |-> url, retries |-> retries,
                                 result |-> -1],
                   !.queue = Append(@, c)]
    ELSE [g EXCEPT !.calls[c] = [pc |-> "fetching", url |-> url, retries |-> retries,
                                 result |-> -1],
                   !.active = @ + 1,
                   !.log[url] = LogUpstream(@, now),
                   !.attempts[c] = [@ EXCEPT !.n = @ + 1, !.last = now]]

\* a plausible slip: the latest waiter is taken (pop instead of shift)
ShiftLast(queue) ==
    [next |-> queue[Len(queue)], rest |-> SubSeq(queue, 1, Len(queue) - 1)]

\* requestQueue.shift(): the resolver taken and the queue left
Shift(queue) == [next |-> Head(queue), rest |-> Tail(queue)]

\* a plausible slip: with a waiter in the queue the slot is handed over
\* without the decrement, although the waiter increments when it resumes
ReleaseHandOver(g) ==
    IF Len(g.queue) > 0
    THEN [g EXCEPT !.queue = Shift(g.queue).rest,
                   !.calls[Shift(g.queue).next].pc = "woken",
                   !.micro = Append(@, [job |-> "resume",
                                        call |-> Shift(g.queue).next])]
    ELSE [g EXCEPT !.active = @ - 1]

\* a plausible slip: the finally block gives the slot back and wakes nobody
ReleaseNoWake(g) == [g EXCEPT !.active = @ - 1]

\* the finally block: activeRequests--, then the first waiter's resolver is
\* called, which queues the waiter's continuation as a promise job
Release(g) ==
    LET g1 == [g EXCEPT !.active = @ - 1]
    IN  IF Len(g1.queue) > 0
        THEN [g1 EXCEPT !.queue = Shift(g1.queue).rest,
                        !.calls[Shift(g1.queue).next].pc = "woken",
                        !.micro = Append(@, [job |-> "resume",
                                             call |-> Shift(g1.queue).next])]
        ELSE g1

\* the promise of invocation c settles: its caller's continuation is queued
\* behind the jobs queued so far
Settle(g, c) ==
    IF g.calls[c].pc \in {"done", "failed"}
    THEN [g EXCEPT !.micro = Append(@, [job |-> "cont", call |-> c])]
    ELSE g

\* invocations are numbered in the order they are made
NextCall(c) ==
    /\ calls[c].pc = "idle"
    /\ \A d \in CallIds : d < c => calls[d].pc # "idle"

\* a timer or command handler calls fetchWithRetry(url)
StartCall(c, url) ==
    /\ microtasks = <<>>
    /\ NextCall(c)
    /\ SetGate(Settle(Enter(Gate, c, url, RETRY_ATTEMPTS), c))
    /\ UNCHANGED <<now, cache, lastSuccess, rateVars, monVars>>

\* the response arrives and is ok: cache.set, return data, finally
\* the payload is named by the time the upstream produced it
NetSuccess(c) ==
    /\ microtasks = <<>>
    /\ calls[c].pc = "fetching"
    /\ cache' = [cache EXCEPT ![calls[c].url] = [data |-> now, timestamp |-> now]]
    /\ lastSuccess' = [lastSuccess EXCEPT ![calls[c].url] = [data |-> now, time |-> now]]
    /\ SetGate(Settle(Release([Gate EXCEPT !.calls[c] =
                   [pc |-> "done", url |-> calls[c].url, retries |-> 0,
                    result |-> now]]), c))
    /\ UNCHANGED <<now, rateVars, monVars>>

\* a plausible slip: one retry too many
RetriesLeftOffByOne(retries) == retries >= 0

\* if (retries > 0) in the catch block
RetriesLeft(retries) == retries > 0

\* network error, timeout abort or non-2xx: catch; with retries left the
\* frame sleeps RETRY_DELAY (its finally has not run), else throw, finally
NetFailure(c) ==
    /\ microtasks = <<>>
    /\ calls[c].pc = "fetching"
    /\ IF RetriesLeft(calls[c].retries)
       THEN SetGate([Gate EXCEPT !.calls[c].pc = "retrywait",
                                 !.attempts[c].failedAt = now])
       ELSE SetGate(Settle(Release([Gate EXCEPT !.calls[c].pc = "failed",
                                                !.calls[c].result = -1,
                                                !.attempts[c].failedAt = now]), c))
    /\ UNCHANGED <<now, cache, lastSuccess, rateVars, monVars>>

\* a plausible slip: the slot of the failed attempt is given back before the
\* next attempt enters the gate
ReleaseThenRetry(g, c, url, retries) == Enter(Release(g), c, url, retries)

\* return fetchWithRetry(url, options, retries - 1) of line 543: the inner
\* call runs to its first await, then the finally of the outer frame runs
RetryThenRelease(g, c, url, retries) == Release(Enter(g, c, url, retries))

\* RETRY_DELAY elapsed: return fetchWithRetry(url, options, retries - 1) runs
\* the inner call to its first await, then the outer frame's finally runs
RetryTimer(c) ==
    /\ microtasks = <<>>
    /\ calls[c].pc = "retrywait"
    /\ now - attemptLog[c].failedAt >= RETRY_DELAY
    /\ SetGate(Settle(RetryThenRelease(Gate, c, calls[c].url,
                                       calls[c].retries - 1), c))
    /\ UNCHANGED <<now, cache, lastSuccess, rateVars, monVars>>

\* promise job: a woken waiter continues after line 510: activeRequests++, fetch
Resume ==
    /\ Len(microtasks) > 0
    /\ Head(microtasks).job = "resume"
    /\ LET c == Head(microtasks).call
       IN  SetGate([Gate EXCEPT !.micro = Tail(@),
                                !.calls[c].pc = "fetching",
                                !.active = @ + 1,
                                !.log[calls[c].url] = LogUpstream(@, now),
                                !.attempts[c] = [@ EXCEPT !.n = @ + 1, !.last = now]])
    /\ UNCHANGED <<now, cache, lastSuccess, rateVars, monVars>>

\* promise job: the caller of a settled invocation continues; it may call
\* fetchWithRetry again in the same job, once or several times
\* (fetchPositions -> fetchMarkPrice for every position)
ContinuationCall(c, url) ==
    /\ Len(microtasks) > 0
    /\ Head(microtasks).job = "cont"
    /\ NextCall(c)
    /\ SetGate(Settle(Enter(Gate, c, url, RETRY_ATTEMPTS), c))
    /\ UNCHANGED <<now, cache, lastSuccess, rateVars, monVars>>

\* the caller's job ends; the invocation it awaited is over
ContinuationEnd ==
    /\ Len(microtasks) > 0
    /\ Head(microtasks).job = "cont"
    /\ SetGate([Gate EXCEPT !.micro = Tail(@),
                            !.calls[Head(microtasks).call] = OverCall,
                            !.attempts[Head(microtasks).call] = NoAttempt])
    /\ UNCHANGED <<now, cache, lastSuccess, rateVars, monVars>>

FetchAdvance ==
    /\ microtasks = <<>>
    /\ Advance(FetchMaxTime)
    /\ UNCHANGED <<fetchVars, rateVars, monVars>>


\* ----------------------------------------------------------------- poller
MAX_ADDRESSES_PER_USER == 5     \* CONFIG.MAX_ADDRESSES_PER_USER
HISTORY_CAP == 1000             \* the cap of tradeHistory and balanceHistory

Addresses == {"a1", "a2"}       \* checksummed addresses

\* the one address the commands and the upstream changes are about; the
\* second address is tracked in the specification of the callback alone
Commanded == {"a1"}

\* a value for the commanded address and another for the rest
OnlyCommanded(value, rest) == [a \in Addresses |-> IF a \in Commanded THEN value ELSE rest]
Symbols == {"BTC", "ETH"}       \* symbols made of word characters only

\* a position as fetchPositions builds it (lines 571-581); sizes are absolute,
\* mark_price 0 stands for null
Pos(sym, size, entry, sign, upnl, mark) ==
    [symbol |-> sym, position |-> size, avg_entry_price |-> entry, sign |-> sign,
     unrealized_pnl |-> upnl, mark_price |-> mark]

\* the value fetchPositions returns when the fetch failed, the account is
\* missing or the address is invalid (lines 557, 562, 601)
ZeroState == [balance |-> 0, positions |-> <<>>]

\* what the positions source can answer for an address; positions are kept
\* in the key order of the object fetchPositions builds
UpstreamStates ==
    << [balance |-> 10, positions |-> <<>>],
       [balance |-> 10, positions |-> <<Pos("BTC", 2, 5, 1, 4, 7)>>],
       [balance |-> 12, positions |-> <<Pos("BTC", 1, 5, 1, 2, 7)>>],
       [balance |-> 10, positions |-> <<Pos("BTC", 2, 5, 1, 4, 7),
                                        Pos("ETH", 1, 3, -1, -1, 0)>>] >>

\* Object.keys(positions)
Keys(positions) == [i \in 1..Len(positions) |-> positions[i].symbol]

HasKey(positions, sym) == \E i \in 1..Len(positions) : positions[i].symbol = sym

\* positions[sym], for a key that is present
Get(positions, sym) ==
    positions[CHOOSE i \in 1..Len(positions) : positions[i].symbol = sym]

\* the plausible slip: the keys of the new snapshot are left out
AllSymbolsOldOnly(oldPositions, newPositions) == Keys(oldPositions)

\* new Set([...Object.keys(oldPositions), ...Object.keys(newPositions)]),
\* in iteration order
AllSymbols(oldPositions, newPositions) ==
    Keys(oldPositions) \o
    SelectSeq(Keys(newPositions), LAMBDA sym : ~HasKey(oldPositions, sym))

\* the plausible slip: the two position objects are compared by identity,
\* which always differs
DiffOfByIdentity(oldPositions, newPositions, sym) ==
    IF ~HasKey(oldPositions, sym) /\ HasKey(newPositions, sym)
    THEN <<[action |-> "opened", symbol |-> sym]>>
    ELSE IF HasKey(oldPositions, sym) /\ ~HasKey(newPositions, sym)
    THEN <<[action |-> "closed", symbol |-> sym]>>
    ELSE IF HasKey(oldPositions, sym) /\ HasKey(newPositions, sym)
    THEN <<[action |-> IF Get(newPositions, sym).position
                              > Get(oldPositions, sym).position
                       THEN "increased" ELSE "reduced",
            symbol |-> sym]>>
    ELSE <<>>

\* the plausible slip: a change of side counts as a change of the position
DiffOfWithSide(oldPositions, newPositions, sym) ==
    IF ~HasKey(oldPositions, sym) /\ HasKey(newPositions, sym)
    THEN <<[action |-> "opened", symbol |-> sym]>>
    ELSE IF HasKey(oldPositions, sym) /\ ~HasKey(newPositions, sym)
    THEN <<[action |-> "closed", symbol |-> sym]>>
    ELSE IF /\ HasKey(oldPositions, sym) /\ HasKey(newPositions, sym)
            /\ \/ Get(oldPositions, sym).position # Get(newPositions, sym).position
               \/ Get(oldPositions, sym).avg_entry_price
                      # Get(newPositions, sym).avg_entry_price
               \/ Get(oldPositions, sym).sign # Get(newPositions, sym).sign
    THEN <<[action |-> IF Get(newPositions, sym).position
                              > Get(oldPositions, sym).position
                       THEN "increased" ELSE "reduced",
            symbol |-> sym]>>
    ELSE <<>>

\* the message comparePositions pushes for one symbol, or none: action is the
\* title of the message, the symbol is what the tick's regular expression
\* reads back from it
DiffOf(oldPositions, newPositions, sym) ==
    IF ~HasKey(oldPositions, sym) /\ HasKey(newPositions, sym)
    THEN <<[action |-> "opened", symbol |-> sym]>>
    ELSE IF HasKey(oldPositions, sym) /\ ~HasKey(newPositions, sym)
    THEN <<[action |-> "closed", symbol |-> sym]>>
    ELSE IF /\ HasKey(oldPositions, sym) /\ HasKey(newPositions, sym)
            /\ \/ Get(oldPositions, sym).position # Get(newPositions, sym).position
               \/ Get(oldPositions, sym).avg_entry_price
                      # Get(newPositions, sym).avg_entry_price
    THEN <<[action |-> IF Get(newPositions, sym).position
                              > Get(oldPositions, sym).position
                       THEN "increased" ELSE "reduced",
            symbol |-> sym]>>
    ELSE <<>>

RECURSIVE DiffsOver(_, _, _)
DiffsOver(syms, oldPositions, newPositions) ==
    IF syms = <<>> THEN <<>>
    ELSE DiffOf(oldPositions, newPositions, Head(syms))
         \o DiffsOver(Tail(syms), oldPositions, newPositions)

comparePositions(oldPos, newPos) ==
    DiffsOver(AllSymbols(oldPos.positions, newPos.positions),
              oldPos.positions, newPos.positions)

SideOf(pos) == IF pos.sign = 1 THEN "LONG" ELSE "SHORT"

\* a || b on prices
OrElse(a, b) == IF a # 0 THEN a ELSE b

\* ---- the Number arithmetic of line 339: IEEE 754 doubles, round to nearest,
\* ties to even. A double is [exp, bits]: bits are the 53 bits of the
\* significand, the first one 1, and the value is 1.b2...b53 * 2^exp.
SIGNIFICAND_BITS == 53

Abs(x) == IF x < 0 THEN -x ELSE x

\* n steps of the long division of r by q (r < q): the n bits of r/q after the
\* point and the remainder left, the steps taken half by half (the first
\* half is a value before the second half starts)
RECURSIVE DivStep(_, _, _)
DivStep(r, q, n) ==
    IF n = 0 THEN [rem |-> r, bits |-> <<>>]
    ELSE IF n = 1
    THEN LET bit == IF 2 * r >= q THEN 1 ELSE 0
         IN  [rem |-> 2 * r - bit * q, bits |-> <<bit>>]
    ELSE CHOOSE both \in
             {LET second == DivStep(first.rem, q, n - n \div 2)
              IN  [rem |-> second.rem, bits |-> first.bits \o second.bits] :
                  first \in {DivStep(r, q, n \div 2)}} : TRUE

\* the first n bits of the binary expansion of r/q after the point (r < q)
DivBits(r, q, n) == DivStep(r, q, n).bits

\* the remainder left after those n bits
DivRem(r, q, n) == DivStep(r, q, n).rem

\* p/q brought into [1, 2) by powers of two
RECURSIVE Normalize(_, _, _)
Normalize(p, q, e) ==
    IF p >= 2 * q THEN Normalize(p, 2 * q, e + 1)
    ELSE IF p < q THEN Normalize(2 * p, q, e - 1)
    ELSE [p |-> p, q |-> q, exp |-> e]

\* bits + 1 for bits that are not all 1: the trailing ones become zeros and
\* the zero before them becomes a one
IncBits(bits) ==
    LET z == CHOOSE i \in 1..Len(bits) :
                 bits[i] = 0 /\ \A j \in (i + 1)..Len(bits) : bits[j] = 1
    IN  [i \in 1..Len(bits) |-> IF i < z THEN bits[i] ELSE IF i = z THEN 1 ELSE 0]

\* an exact significand of more than 53 bits rounded to 53
RoundBits(all, e) ==
    LET kept == SubSeq(all, 1, SIGNIFICAND_BITS)
        guard == IF Len(all) > SIGNIFICAND_BITS THEN all[SIGNIFICAND_BITS + 1] ELSE 0
        sticky == \E i \in (SIGNIFICAND_BITS + 2)..Len(all) : all[i] = 1
        up == guard = 1 /\ (sticky \/ kept[SIGNIFICAND_BITS] = 1)
    IN  IF ~up THEN [exp |-> e, bits |-> kept]
        ELSE IF \A i \in 1..SIGNIFICAND_BITS : kept[i] = 1
        THEN [exp |-> e + 1,
              bits |-> <<1>> \o [i \in 1..(SIGNIFICAND_BITS - 1) |-> 0]]
        ELSE [exp |-> e, bits |-> IncBits(kept)]

\* p / q for positive integers p and q
FDiv(p, q) ==
    LET n == Normalize(p, q, 0)
        r == n.p - n.q
    IN  RoundBits(<<1>> \o DivBits(r, n.q, SIGNIFICAND_BITS)
                       \o <<IF DivRem(r, n.q, SIGNIFICAND_BITS) # 0 THEN 1 ELSE 0>>,
                  n.exp)

\* the binary digits of a natural number, none for 0
RECURSIVE IntBits(_)
IntBits(n) == IF n = 0 THEN <<>> ELSE Append(IntBits(n \div 2), n % 2)

\* bits[lo..hi] times a plus the carry cin from the lower bits (bit hi is the
\* lowest): the bits of the product at these places and the carry out of
\* them, the places taken half by half
RECURSIVE MulStep(_, _, _, _, _)
MulStep(bits, a, lo, hi, cin) ==
    IF lo = hi
    THEN LET t == bits[lo] * a + cin
         IN  [carry |-> t \div 2, bits |-> <<t % 2>>]
    ELSE CHOOSE both \in
             {LET high == MulStep(bits, a, lo, (lo + hi) \div 2, low.carry)
              IN  [carry |-> high.carry, bits |-> high.bits \o low.bits] :
                  low \in {MulStep(bits, a, (lo + hi) \div 2 + 1, hi, cin)}} : TRUE

\* bits * a, exactly
MulBits(bits, a) ==
    LET m == MulStep(bits, a, 1, Len(bits), 0)
    IN  IntBits(m.carry) \o m.bits

\* a * f for a positive integer a and a double f
FMulInt(a, f) ==
    LET all == MulBits(f.bits, a)
    IN  RoundBits(all, f.exp + Len(all) - SIGNIFICAND_BITS)

\* the natural number with the binary digits bits[1..n]
RECURSIVE BitsToInt(_, _)
BitsToInt(bits, n) ==
    IF n = 0 THEN 0 ELSE 2 * BitsToInt(bits, n - 1) + bits[n]

FIsInt(f) ==
    /\ f.exp >= 0
    /\ \A i \in (f.exp + 2)..SIGNIFICAND_BITS : f.bits[i] = 0

FToInt(f) == BitsToInt(f.bits, f.exp + 1)

\* the plausible slip: the whole unrealized P&L is realized
PartialPnlWhole(upnl, sizeDiff, oldSize) == upnl

\* (oldPos.unrealized_pnl || 0) * (sizeDiff / oldPos.position); the model's
\* numbers are integers, a product that is none is kept as the double
PartialPnl(upnl, sizeDiff, oldSize) ==
    IF upnl = 0 THEN 0
    ELSE LET f == FMulInt(Abs(upnl), FDiv(sizeDiff, oldSize))
         IN  IF FIsInt(f)
             THEN (IF upnl < 0 THEN -1 ELSE 1) * FToInt(f)
             ELSE [negative |-> upnl < 0, exp |-> f.exp, bits |-> f.bits]

\* the trade records updateWalletPnL appends for one symbol (lines 278-350)
TradesOf(oldPositions, newPositions, sym, t) ==
    LET hasOld == HasKey(oldPositions, sym)
        hasNew == HasKey(newPositions, sym)
    IN  IF hasOld /\ ~hasNew
        THEN LET o == Get(oldPositions, sym)
             IN  <<[symbol |-> sym, side |-> SideOf(o), size |-> o.position,
                    entryPrice |-> o.avg_entry_price,
                    exitPrice |-> OrElse(o.mark_price, o.avg_entry_price),
                    pnl |-> o.unrealized_pnl, timestamp |-> t, type |-> "close"]>>
        ELSE IF ~hasOld /\ hasNew
        THEN LET n == Get(newPositions, sym)
             IN  <<[symbol |-> sym, side |-> SideOf(n), size |-> n.position,
                    entryPrice |-> n.avg_entry_price, exitPrice |-> 0,
                    pnl |-> 0, timestamp |-> t, type |-> "open"]>>
        ELSE IF hasOld /\ hasNew
                /\ Get(oldPositions, sym).position # Get(newPositions, sym).position
        THEN LET o == Get(oldPositions, sym)
                 n == Get(newPositions, sym)
                 sizeDiff == IF n.position > o.position
                             THEN n.position - o.position
                             ELSE o.position - n.position
             IN  IF n.position > o.position
                 THEN <<[symbol |-> sym, side |-> SideOf(n), size |-> sizeDiff,
                         entryPrice |-> n.avg_entry_price, exitPrice |-> 0,
                         pnl |-> 0, timestamp |-> t, type |-> "increase"]>>
                 ELSE <<[symbol |-> sym, side |-> SideOf(o), size |-> sizeDiff,
                         entryPrice |-> o.avg_entry_price,
                         exitPrice |-> OrElse(n.mark_price, o.avg_entry_price),
                         pnl |-> PartialPnl(o.unrealized_pnl, sizeDiff, o.position),
                         timestamp |-> t, type |-> "partial_close"]>>
        ELSE <<>>

RECURSIVE TradesOver(_, _, _, _)
TradesOver(syms, oldPositions, newPositions, t) ==
    IF syms = <<>> THEN <<>>
    ELSE TradesOf(oldPositions, newPositions, Head(syms), t)
         \o TradesOver(Tail(syms), oldPositions, newPositions, t)

RECURSIVE SumPnl(_)
SumPnl(trades) ==
    IF trades = <<>> THEN 0 ELSE Head(trades).pnl + SumPnl(Tail(trades))

\* the plausible slip: only the positions in profit are counted
RECURSIVE SumUnrealizedGains(_)
SumUnrealizedGains(positions) ==
    IF positions = <<>> THEN 0
    ELSE (IF Head(positions).unrealized_pnl > 0
          THEN Head(positions).unrealized_pnl ELSE 0)
         + SumUnrealizedGains(Tail(positions))

\* currentUnrealizedPnL of lines 270-273
RECURSIVE SumUnrealized(_)
SumUnrealized(positions) ==
    IF positions = <<>> THEN 0
    ELSE Head(positions).unrealized_pnl + SumUnrealized(Tail(positions))

\* the plausible slip: only partial closes are realized
IsClosingPartialOnly(trade) == trade.type = "partial_close"

IsClosing(trade) == trade.type \in {"close", "partial_close"}

\* the plausible slip: slice(0, 1000), which keeps the oldest entries
CappedOldest(history) ==
    IF Len(history) > HISTORY_CAP THEN SubSeq(history, 1, HISTORY_CAP)
    ELSE history

\* history.slice(-HISTORY_CAP) when the cap is exceeded
Capped(history) ==
    IF Len(history) > HISTORY_CAP
    THEN SubSeq(history, Len(history) - HISTORY_CAP + 1, Len(history))
    ELSE history

\* the record initializeWalletPnL creates
NewWalletPnL(initialBalance, t) ==
    [totalPnL |-> 0, realizedPnL |-> 0, unrealizedPnL |-> 0, trades |-> 0,
     startTime |-> t, initialBalance |-> initialBalance,
     lastBalance |-> initialBalance, tradeHistory |-> <<>>,
     balanceHistory |-> <<[balance |-> initialBalance, timestamp |-> t]>>]

\* walletPnL[address] after initializeWalletPnL(address, initialBalance)
initializeWalletPnL(entry, initialBalance, t) ==
    IF entry = NoEntry THEN NewWalletPnL(initialBalance, t) ELSE entry

\* the plausible slip: the open positions are left out of the total
TotalOfRealizedOnly(realized, unrealized) == realized

\* stats.totalPnL = stats.realizedPnL + currentUnrealizedPnL
TotalOf(realized, unrealized) == realized + unrealized

\* walletPnL[address] after updateWalletPnL(address, oldState, newState)
updateWalletPnL(entry, oldState, newState, t) ==
    LET w == initializeWalletPnL(entry, newState.balance, t)
        added == TradesOver(AllSymbols(oldState.positions, newState.positions),
                            oldState.positions, newState.positions, t)
        closing == SelectSeq(added, IsClosing)
        realized == w.realizedPnL + SumPnl(closing)
        unrealized == SumUnrealized(newState.positions)
    IN  [w EXCEPT !.tradeHistory = Capped(@ \o added),
                  !.realizedPnL = realized,
                  !.trades = @ + Len(closing),
                  !.unrealizedPnL = unrealized,
                  !.lastBalance = newState.balance,
                  !.totalPnL = TotalOf(realized, unrealized),
                  !.balanceHistory =
                      Capped(Append(@, [balance |-> newState.balance,
                                        timestamp |-> t]))]

\* the plausible slip: every position present on both sides gets a marker,
\* whether its size changed or not
getTradeTypeForChartAnyChange(oldPositions, newPositions, sym) ==
    LET hasOld == HasKey(oldPositions, sym)
        hasNew == HasKey(newPositions, sym)
    IN  IF ~hasOld /\ hasNew
        THEN IF Get(newPositions, sym).sign = 1 THEN "buy" ELSE "sell"
        ELSE IF hasOld /\ ~hasNew
        THEN IF Get(oldPositions, sym).sign = 1 THEN "sell" ELSE "buy"
        ELSE IF hasOld /\ hasNew
        THEN IF Get(newPositions, sym).position > Get(oldPositions, sym).position
             THEN IF Get(newPositions, sym).sign = 1 THEN "buy" ELSE "sell"
             ELSE IF Get(newPositions, sym).sign = 1 THEN "sell" ELSE "buy"
        ELSE "none"

\* the plausible slip: a close is marked on the side of the position
getTradeTypeForChartSameSide(oldPositions, newPositions, sym) ==
    LET hasOld == HasKey(oldPositions, sym)
        hasNew == HasKey(newPositions, sym)
    IN  IF ~hasOld /\ hasNew
        THEN IF Get(newPositions, sym).sign = 1 THEN "buy" ELSE "sell"
        ELSE IF hasOld /\ ~hasNew
        THEN IF Get(oldPositions, sym).sign = 1 THEN "buy" ELSE "sell"
        ELSE IF hasOld /\ hasNew
                /\ Get(oldPositions, sym).position # Get(newPositions, sym).position
        THEN IF Get(newPositions, sym).position > Get(oldPositions, sym).position
             THEN IF Get(newPositions, sym).sign = 1 THEN "buy" ELSE "sell"
             ELSE IF Get(newPositions, sym).sign = 1 THEN "sell" ELSE "buy"
        ELSE "none"

\* getTradeTypeForChart(oldPos, newPos, symbol); "none" stands for null
getTradeTypeForChart(oldPositions, newPositions, sym) ==
    LET hasOld == HasKey(oldPositions, sym)
        hasNew == HasKey(newPositions, sym)
    IN  IF ~hasOld /\ hasNew
        THEN IF Get(newPositions, sym).sign = 1 THEN "buy" ELSE "sell"
        ELSE IF hasOld /\ ~hasNew
        THEN IF Get(oldPositions, sym).sign = 1 THEN "sell" ELSE "buy"
        ELSE IF hasOld /\ hasNew
                /\ Get(oldPositions, sym).position # Get(newPositions, sym).position
        THEN IF Get(newPositions, sym).position > Get(oldPositions, sym).position
             THEN IF Get(newPositions, sym).sign = 1 THEN "buy" ELSE "sell"
             ELSE IF Get(newPositions, sym).sign = 1 THEN "sell" ELSE "buy"
        ELSE "none"

\* ------------------------------------------------------ poller: the state
TickIds == 1..MaxLiveTicks
Labels == {"null", "label"}     \* input[1] || null

\* task.pc:  none      the tick has no task for the address
\*           fetching  awaiting fetchPositions                   (line 1213)
\*           chart     awaiting getCandles, then renderChart, for diff
\*                     number i                           (lines 1260, 1267)
\*           send      awaiting the sendPhoto calls              (line 1283)
\*           hung      an await of the task never settles
\*           settled   the task's promise is fulfilled or rejected
\* fetched: history, whether the fetch of the task succeeded
\* issued:  history, the fetchPositions calls the callback issued for the
\*          address
NoTask == [pc |-> "none", users |-> {}, oldState |-> NoEntry,
           newState |-> NoEntry, i |-> 0, fetched |-> "none", issued |-> 0]

\* a task whose promise is settled keeps nothing but its history
Settled(task) == [NoTask EXCEPT !.pc = "settled", !.fetched = task.fetched]

IdleTick == [running |-> FALSE, tasks |-> [a \in Addresses |-> NoTask]]

EmptyWatchlist == [u \in Users |-> [a \in Addresses |-> "absent"]]

CLEANUP_PERIOD == 3             \* the 3600000 ms of the event cleanup timer, scaled
PRUNE_PERIOD == 2               \* the 24 h of the P&L pruning timer, scaled
PNL_MAX_AGE == 3                \* the 30 days of the P&L pruning, scaled

\* both setInterval timers are set when the program starts
FirstTimers == [cleanup |-> CLEANUP_PERIOD, prune |-> PRUNE_PERIOD]

MonIdle ==
    /\ watchlist = EmptyWatchlist
    /\ previousStates = [a \in Addresses |-> NoEntry]
    /\ walletPnL = [a \in Addresses |-> NoEntry]
    /\ tradeEventsByWallet = [a \in Addresses |-> <<>>]
    /\ upstream = [a \in Addresses |-> UpstreamStates[1]]
    /\ ticks = [k \in TickIds |-> IdleTick]
    /\ adds = [u \in Users |-> NoEntry]
    /\ timers = FirstTimers
    /\ stats = [a \in Addresses |-> NoEntry]
    /\ counters = [ticks |-> 0, changes |-> 0, commands |-> 0,
                   closes |-> [a \in Addresses |-> 0],
                   seen |-> [a \in Addresses |-> 0]]

\* Object.keys(userAddresses)
Tracks(wl, userId, address) == wl[userId][address] # "absent"

\* the users of addressToUsers.get(address), lines 1204-1209
UsersOf(wl, address) == {u \in Users : Tracks(wl, u, address)}

\* getUserLimits(userId).maxAddresses; -1 stands for Infinity
UserMaxAddresses(userId) ==
    IF isWhitelisted(userId) THEN -1 ELSE MAX_ADDRESSES_PER_USER

\* what fetchPositions returns: the upstream state, or the zero state when
\* fetchWithRetry threw after its retries
fetchPositions(address, ok) ==
    IF ok THEN upstream[address] ELSE ZeroState

\* the positions source changes
UpstreamChange(a, s) ==
    /\ counters.changes < MaxChanges
    /\ UpstreamStates[s] # upstream[a]
    /\ upstream' = [upstream EXCEPT ![a] = UpstreamStates[s]]
    /\ counters' = [counters EXCEPT
           !.changes = @ + 1,
           !.closes[a] = @ + Cardinality(
               {sym \in Symbols :
                   /\ HasKey(upstream[a].positions, sym)
                   /\ ~HasKey(UpstreamStates[s].positions, sym)})]
    /\ UNCHANGED <<now, rateVars, fetchVars, otherVars, watchlist, previousStates,
                   walletPnL, tradeEventsByWallet, ticks, adds>>

\* ------------------------------------------------------- /add and /delete
\* bot.command('add') up to the await of line 1101
AddStart(userId, address, label) ==
    /\ counters.commands < MaxCommands
    /\ adds[userId] = NoEntry
    /\ \/ UserMaxAddresses(userId) = -1
       \/ Cardinality({a \in Addresses : Tracks(watchlist, userId, a)})
              < UserMaxAddresses(userId)
    /\ watchlist[userId][address] # "label"     \* if (userAddresses[address])
    /\ adds' = [adds EXCEPT ![userId] =
                   [address |-> address, label |-> label, watchlist |-> watchlist]]
    /\ counters' = [counters EXCEPT !.commands = @ + 1]
    /\ UNCHANGED <<now, rateVars, fetchVars, otherVars, watchlist, previousStates,
                   walletPnL, tradeEventsByWallet, upstream, ticks>>

\* bot.command('add') after the await: lines 1107-1117; the watchlist saved
\* is the copy loaded before the await
AddDone(userId, ok) ==
    /\ adds[userId] # NoEntry
    /\ LET address == adds[userId].address
           initialState == fetchPositions(address, ok)
       IN  /\ watchlist' = [adds[userId].watchlist EXCEPT
                               ![userId][address] = adds[userId].label]
           /\ previousStates' = [previousStates EXCEPT ![address] = initialState]
           /\ walletPnL' = [walletPnL EXCEPT ![address] =
                  initializeWalletPnL(@, initialState.balance, now)]
    /\ adds' = [adds EXCEPT ![userId] = NoEntry]
    /\ UNCHANGED <<now, rateVars, fetchVars, otherVars, tradeEventsByWallet, upstream,
                   ticks, counters>>

\* Object.values(watchlist).some(userAddr => userAddr[addr]): a null label
\* counts as not tracked
StillTracked(wl, address) == \E u \in Users : wl[u][address] = "label"

\* bot.command('delete')
Delete(userId, address) ==
    /\ counters.commands < MaxCommands
    /\ Tracks(watchlist, userId, address)
    /\ LET wl == [watchlist EXCEPT ![userId][address] = "absent"]
       IN  /\ watchlist' = wl
           /\ IF ~StillTracked(wl, address)
              THEN /\ previousStates' = [previousStates EXCEPT ![address] = NoEntry]
                   /\ tradeEventsByWallet' =
                          [tradeEventsByWallet EXCEPT ![address] = <<>>]
                   /\ walletPnL' = [walletPnL EXCEPT ![address] = NoEntry]
              ELSE UNCHANGED <<previousStates, tradeEventsByWallet, walletPnL>>
    /\ counters' = [counters EXCEPT !.commands = @ + 1]
    /\ UNCHANGED <<now, rateVars, fetchVars, otherVars, upstream, ticks, adds>>

\* ----------------------------------------------------- the monitor callback
EVENT_MAX_AGE == 4              \* the 86400 s of addTradeEvent, scaled

\* tradeEventsByWallet[address] after addTradeEvent; the per-symbol arrays of
\* one address are kept as one list in the order of insertion
addTradeEvent(events, sym, event, t) ==
    LET pushed == Append(events, [symbol |-> sym, time |-> event.time,
                                  price |-> event.price, side |-> event.side])
    IN  SelectSeq(pushed, LAMBDA e : e.symbol # sym \/ t - e.time < EVENT_MAX_AGE)

\* the plausible slip: one ledger for all wallets, as before the events
\* were kept by wallet
SetWalletEventsShared(ledger, address, events) ==
    [a \in Addresses |-> events]

\* tradeEventsByWallet after the events of one address were replaced
SetWalletEvents(ledger, address, events) ==
    [ledger EXCEPT ![address] = events]

\* the loop body of lines 1236-1257 for diff number i, up to await getCandles
MarkDiff(events, oldState, newState, i, t) ==
    LET sym == comparePositions(oldState, newState)[i].symbol
        currentPos == IF HasKey(newState.positions, sym)
                      THEN Get(newState.positions, sym)
                      ELSE Get(oldState.positions, sym)
        tradeType == getTradeTypeForChart(oldState.positions, newState.positions, sym)
    IN  IF tradeType # "none"
        THEN addTradeEvent(events, sym,
                 [time |-> t, price |-> currentPos.avg_entry_price,
                  side |-> tradeType], t)
        ELSE events

SetTask(k, a, task) == ticks' = [ticks EXCEPT ![k].tasks[a] = task]

\* Object.entries(watchlist) and Object.keys(addrs): the order of iteration
UserOrder == <<"u1", "u2">>

AddressOrder == <<"a1", "a2">>

\* the (user, address) pairs in the order the two forEach loops visit them
RECURSIVE PairsOf(_, _)
PairsOf(wl, users) ==
    IF users = <<>> THEN <<>>
    ELSE [i \in 1..Len(SelectSeq(AddressOrder,
                                 LAMBDA a : Tracks(wl, Head(users), a))) |->
             [userId |-> Head(users),
              address |-> SelectSeq(AddressOrder,
                                    LAMBDA a : Tracks(wl, Head(users), a))[i]]]
         \o PairsOf(wl, Tail(users))

\* the plausible slip: one entry per pair, no test for an entry of the address
RECURSIVE MapOfNoMerge(_, _)
MapOfNoMerge(pairs, map) ==
    IF pairs = <<>> THEN map
    ELSE MapOfNoMerge(Tail(pairs),
             Append(map, [address |-> Head(pairs).address,
                          users |-> <<Head(pairs).userId>>]))

\* the Map after the pairs: if (!addressToUsers.has(addr)) set(addr, []);
\* get(addr).push(user)
RECURSIVE MapOf(_, _)
MapOf(pairs, map) ==
    IF pairs = <<>> THEN map
    ELSE LET addr == Head(pairs).address
             has == \E i \in 1..Len(map) : map[i].address = addr
             withKey == IF has THEN map
                        ELSE Append(map, [address |-> addr, users |-> <<>>])
         IN  MapOf(Tail(pairs),
                 [i \in 1..Len(withKey) |->
                     IF withKey[i].address = addr
                     THEN [withKey[i] EXCEPT !.users = Append(@, Head(pairs).userId)]
                     ELSE withKey[i]])

\* addressToUsers of lines 1202-1209, as the list of its entries
addressToUsers(wl) == MapOf(PairsOf(wl, UserOrder), <<>>)

\* the entries of the map the callback maps to a task for the address
EntriesOf(map, a) == SelectSeq(map, LAMBDA e : e.address = a)

\* the setInterval callback fires: lines 1201-1213, every task up to its
\* await fetchPositions; nothing keeps it from firing while an earlier
\* callback is still running
StartCallback(k) ==
    /\ ~ticks[k].running
    /\ \A j \in TickIds : j < k => ticks[j].running
    /\ ticks' = [ticks EXCEPT ![k] =
           [running |-> TRUE,
            tasks |-> [a \in Addresses |->
                LET entries == EntriesOf(addressToUsers(watchlist), a)
                IN  IF entries # <<>>
                    THEN [NoTask EXCEPT !.pc = "fetching",
                                        !.users = {entries[1].users[i] :
                                                      i \in 1..Len(entries[1].users)},
                                        !.issued = Len(entries)]
                    ELSE NoTask]]]
    /\ counters' = [counters EXCEPT !.ticks = @ + 1]
    /\ UNCHANGED <<now, rateVars, fetchVars, otherVars, watchlist, previousStates,
                   walletPnL, tradeEventsByWallet, upstream, adds>>

TickStart(k) ==
    /\ counters.ticks < MaxTicks
    /\ StartCallback(k)

\* the plausible slip the first-observation branch guards against: the
\* missing snapshot is replaced by an empty one and diffed
OldStateOrEmpty(address) ==
    IF previousStates[address] = NoEntry THEN ZeroState
    ELSE previousStates[address]

\* const oldState = previousStates[address]
OldState(address) == previousStates[address]

\* fetchPositions returns: lines 1213-1260, to the first await of the loop
FetchDone(k, a, ok) ==
    /\ ticks[k].tasks[a].pc = "fetching"
    /\ LET task == [ticks[k].tasks[a] EXCEPT
                       !.fetched = IF ok THEN "ok" ELSE "failed"]
           newState == fetchPositions(a, ok)
           oldState == OldState(a)
       IN  IF oldState = NoEntry
           THEN \* first observation: store, no notification
                /\ previousStates' = [previousStates EXCEPT ![a] = newState]
                /\ SetTask(k, a, Settled(task))
                /\ UNCHANGED <<walletPnL, tradeEventsByWallet>>
           ELSE IF comparePositions(oldState, newState) = <<>>
           THEN /\ previousStates' = [previousStates EXCEPT ![a] = newState]
                /\ SetTask(k, a, Settled(task))
                /\ UNCHANGED <<walletPnL, tradeEventsByWallet>>
           ELSE /\ walletPnL' = [walletPnL EXCEPT ![a] =
                       updateWalletPnL(@, oldState, newState, now)]
                /\ tradeEventsByWallet' =
                       SetWalletEvents(tradeEventsByWallet, a,
                           MarkDiff(tradeEventsByWallet[a], oldState, newState,
                                    1, now))
                /\ SetTask(k, a, [task EXCEPT !.pc = "chart",
                                              !.oldState = oldState,
                                              !.newState = newState,
                                              !.i = 1])
                /\ UNCHANGED previousStates
    /\ counters' = [counters EXCEPT !.seen[a] = counters.changes]
    /\ UNCHANGED <<now, rateVars, fetchVars, otherVars, watchlist, upstream, adds>>

\* getCandles and renderChart return, or one of them throws (no data,
\* network error, browser failure): then the task's promise is rejected and
\* line 1293 is never reached
ChartDone(k, a, ok) ==
    /\ ticks[k].tasks[a].pc = "chart"
    /\ SetTask(k, a, IF ok THEN [ticks[k].tasks[a] EXCEPT !.pc = "send"]
                     ELSE Settled(ticks[k].tasks[a]))
    /\ UNCHANGED <<now, rateVars, fetchVars, otherVars, watchlist, previousStates,
                   walletPnL, tradeEventsByWallet, upstream, adds, counters>>

\* the request of getCandles (a fetch without timeout or abort signal) is
\* never answered: the await of line 1260 never settles
ChartHang(k, a) ==
    /\ ticks[k].tasks[a].pc = "chart"
    /\ SetTask(k, a, [ticks[k].tasks[a] EXCEPT !.pc = "hung"])
    /\ UNCHANGED <<now, rateVars, fetchVars, otherVars, watchlist, previousStates,
                   walletPnL, tradeEventsByWallet, upstream, adds, counters>>

\* the sendPhoto calls are over (their errors are caught): the next diff, or
\* after the last one line 1293
SendDone(k, a) ==
    /\ ticks[k].tasks[a].pc = "send"
    /\ LET task == ticks[k].tasks[a]
       IN  IF task.i < Len(comparePositions(task.oldState, task.newState))
           THEN /\ tradeEventsByWallet' =
                       SetWalletEvents(tradeEventsByWallet, a,
                           MarkDiff(tradeEventsByWallet[a], task.oldState,
                                    task.newState, task.i + 1, now))
                /\ SetTask(k, a, [task EXCEPT !.pc = "chart", !.i = @ + 1])
                /\ UNCHANGED previousStates
           ELSE /\ previousStates' = [previousStates EXCEPT ![a] = task.newState]
                /\ SetTask(k, a, Settled(task))
                /\ UNCHANGED tradeEventsByWallet
    /\ UNCHANGED <<now, rateVars, fetchVars, otherVars, watchlist, walletPnL, upstream,
                   adds, counters>>

\* Promise.allSettled resolves: saveState, the callback returns
TickEnd(k) ==
    /\ ticks[k].running
    /\ \A a \in Addresses : ticks[k].tasks[a].pc \in {"none", "settled"}
    /\ ticks' = [ticks EXCEPT ![k] = IdleTick]
    /\ UNCHANGED <<now, rateVars, fetchVars, otherVars, watchlist, previousStates,
                   walletPnL, tradeEventsByWallet, upstream, adds, counters>>

\* ---------------------------------------------------- poller specification
\* a fresh start, or a start with a watchlist file and no state file
Init ==
    /\ now = 0
    /\ RateIdle
    /\ FetchIdle
    /\ previousStates = [a \in Addresses |-> NoEntry]
    /\ walletPnL = [a \in Addresses |-> NoEntry]
    /\ tradeEventsByWallet = [a \in Addresses |-> <<>>]
    /\ ticks = [k \in TickIds |-> IdleTick]
    /\ adds = [u \in Users |-> NoEntry]
    /\ timers = FirstTimers
    /\ stats = [a \in Addresses |-> NoEntry]
    /\ counters = [ticks |-> 0, changes |-> 0, commands |-> 0,
                   closes |-> [a \in Addresses |-> 0],
                   seen |-> [a \in Addresses |-> 0]]
    /\ upstream \in {OnlyCommanded(s, UpstreamStates[1]) :
                        s \in {UpstreamStates[1], UpstreamStates[2]}}
    /\ watchlist \in {EmptyWatchlist,
                      [EmptyWatchlist EXCEPT !["u1"] = OnlyCommanded("label", "absent")]}

Next ==
    \/ \E a \in Commanded, s \in 1..Len(UpstreamStates) : UpstreamChange(a, s)
    \/ \E u \in Users, a \in Commanded, l \in Labels : AddStart(u, a, l)
    \/ \E u \in Users, ok \in BOOLEAN : AddDone(u, ok)
    \/ \E u \in Users, a \in Addresses : Delete(u, a)
    \/ \E k \in TickIds : TickStart(k)
    \/ \E k \in TickIds, a \in Addresses, ok \in BOOLEAN : FetchDone(k, a, ok)
    \/ \E k \in TickIds, a \in Addresses, ok \in BOOLEAN : ChartDone(k, a, ok)
    \/ \E k \in TickIds, a \in Addresses : SendDone(k, a)
    \/ \E k \in TickIds : TickEnd(k)

Spec == Init /\ [][Next]_vars

\* the callbacks whose step for the address (old snapshot read, diff applied,
\* snapshot not yet replaced) is unfinished
InStep(a) == {k \in TickIds : ticks[k].tasks[a].pc \in {"chart", "send"}}

\* C1: a tick's fetch that failed, for an address whose stored snapshot holds
\* open positions, leaves the snapshot, the P&L state and the ledger of the
\* address as they were, and the task ends without entering the
\* notification loop
C1_FailedFetchUntouched ==
    [][\A k \in TickIds, a \in Addresses :
          (/\ ticks[k].tasks[a].pc = "fetching"
           /\ ticks'[k].tasks[a].pc # "fetching"
           /\ ticks'[k].tasks[a].fetched = "failed"
           /\ previousStates[a] # NoEntry
           /\ previousStates[a].positions # <<>>)
          => /\ previousStates'[a] = previousStates[a]
             /\ walletPnL'[a] = walletPnL[a]
             /\ tradeEventsByWallet'[a] = tradeEventsByWallet[a]
             /\ ticks'[k].tasks[a].pc = "settled"]_vars

\* C3: the step of a callback for an address (it starts when the fetch has
\* returned and the old snapshot is read) never starts while the step of
\* another callback for that address is unfinished
C3_SingleFlight ==
    [][\A k \in TickIds, a \in Addresses :
          (/\ ticks[k].tasks[a].pc = "fetching"
           /\ ticks'[k].tasks[a].pc # "fetching")
          => InStep(a) \ {k} = {}]_vars

\* C8: a task that finds no stored snapshot stores what it fetched and ends:
\* no diff is applied to the P&L state, nothing is added to the ledger, and
\* the notification loop is not entered
C8_FirstObservation ==
    [][\A k \in TickIds, a \in Addresses :
          (/\ ticks[k].tasks[a].pc = "fetching"
           /\ ticks'[k].tasks[a].pc # "fetching"
           /\ previousStates[a] = NoEntry)
          => /\ previousStates'[a] =
                    (IF ticks'[k].tasks[a].fetched = "ok"
                     THEN upstream[a] ELSE ZeroState)
             /\ ticks'[k].tasks[a].pc = "settled"
             /\ walletPnL' = walletPnL
             /\ tradeEventsByWallet' = tradeEventsByWallet]_vars

\* the first callback since the start has stored a first snapshot with two
\* open positions, and there is still no P&L state and no ledger entry
C8_Witness ==
    \E k \in TickIds, a \in Addresses :
        /\ counters.ticks = 1
        /\ counters.commands = 0
        /\ ticks[k].tasks[a].pc = "settled"
        /\ ticks[k].tasks[a].fetched = "ok"
        /\ previousStates[a] # NoEntry
        /\ Len(previousStates[a].positions) = 2
        /\ walletPnL[a] = NoEntry
        /\ tradeEventsByWallet[a] = <<>>

\* C9: /add never stores the zero state of a failed fetch as the snapshot of
\* the address it adds
C9_SeededFromSuccess ==
    [][\A u \in Users :
          (adds[u] # NoEntry /\ adds'[u] = NoEntry)
          => previousStates'[adds[u].address] # ZeroState]_vars

\* C10: an address that no user tracks has no snapshot, no P&L state and no
\* ledger events
C10_GoneWhenUntracked ==
    \A a \in Addresses :
        UsersOf(watchlist, a) = {}
        => /\ previousStates[a] = NoEntry
           /\ walletPnL[a] = NoEntry
           /\ tradeEventsByWallet[a] = <<>>

SerialInit ==
    /\ now = 0
    /\ RateIdle
    /\ FetchIdle
    /\ watchlist = [EmptyWatchlist EXCEPT !["u1"] = OnlyCommanded("label", "absent")]
    /\ upstream \in {OnlyCommanded(UpstreamStates[s], UpstreamStates[1]) :
                        s \in 1..Len(UpstreamStates)}
    /\ previousStates = OnlyCommanded(upstream["a1"], NoEntry)
    /\ walletPnL = [a \in Addresses |-> NoEntry]
    /\ tradeEventsByWallet = [a \in Addresses |-> <<>>]
    /\ ticks = [k \in TickIds |-> IdleTick]
    /\ adds = [u \in Users |-> NoEntry]
    /\ timers = FirstTimers
    /\ stats = [a \in Addresses |-> NoEntry]
    /\ counters = [ticks |-> 0, changes |-> 0, commands |-> 0,
                   closes |-> [a \in Addresses |-> 0],
                   seen |-> [a \in Addresses |-> 0]]

SerialNext ==
    \/ \E a \in Commanded, s \in 1..Len(UpstreamStates) : UpstreamChange(a, s)
    \/ TickStart(1)
    \/ \E a \in Addresses : FetchDone(1, a, TRUE)
    \/ \E a \in Addresses, ok \in BOOLEAN : ChartDone(1, a, ok)
    \/ \E a \in Addresses : SendDone(1, a)
    \/ TickEnd(1)

SpecSerial == SerialInit /\ [][SerialNext]_vars

\* the records of type close in the trade history of an address
CloseRecords(a) ==
    IF walletPnL[a] = NoEntry THEN <<>>
    ELSE SelectSeq(walletPnL[a].tradeHistory, LAMBDA tr : tr.type = "close")

\* C23: a callback that fetches an address whose upstream state has not
\* changed since the callback before fetched it finds no difference: it sends
\* nothing, appends no trade record and no chart marker and leaves the P&L
\* state of the address as it was.
C23_TickIdempotent ==
    [][\A a \in Addresses :
          (/\ ticks[1].tasks[a].pc = "fetching"
           /\ ticks'[1].tasks[a].pc # "fetching"
           /\ counters.ticks >= 2
           /\ counters.seen[a] = counters.changes)
          => /\ ticks'[1].tasks[a].pc = "settled"
             /\ walletPnL'[a] = walletPnL[a]
             /\ tradeEventsByWallet'[a] = tradeEventsByWallet[a]]_vars

\* C2: every close is applied once: the close records of an address never
\* outnumber the positions that were closed upstream
C2_AppliedOnce ==
    \A a \in Addresses : Len(CloseRecords(a)) <= counters.closes[a]

\* ------------------------------------------- the diff and the aggregator
\* The per-address task applied to every pair of a stored and a fetched
\* snapshot: callbacks one at a time, every fetch and every chart succeeding,
\* no command and no upstream change. The first callback applies
\* comparePositions and updateWalletPnL to the pair, the second one finds the
\* snapshot it stored.
BtcChoices ==
    {<<>>, <<Pos("BTC", 10, 5, 1, 100, 7)>>, <<Pos("BTC", 6, 5, 1, 60, 7)>>,
     <<Pos("BTC", 10, 6, 1, 100, 7)>>}

EthChoices ==
    {<<>>, <<Pos("ETH", 1, 3, -1, -1, 0)>>, <<Pos("ETH", 2, 3, -1, -2, 0)>>}

\* the snapshots fetchPositions can return, in either key order
Snapshots ==
    {[balance |-> 10, positions |-> b \o e] : b \in BtcChoices, e \in EthChoices}
    \cup {[balance |-> 10, positions |-> e \o b] : b \in BtcChoices, e \in EthChoices}

\* a P&L state with earlier realized and unrealized amounts (its trade
\* history pruned)
SeededWalletPnL ==
    [NewWalletPnL(10, 0) EXCEPT !.realizedPnL = 7, !.trades = 3,
                                !.unrealizedPnL = 5, !.totalPnL = 12]

DiffInit ==
    /\ now = 0
    /\ RateIdle
    /\ FetchIdle
    /\ watchlist = [EmptyWatchlist EXCEPT !["u1"] = OnlyCommanded("label", "absent")]
    /\ upstream \in {OnlyCommanded(s, UpstreamStates[1]) : s \in Snapshots}
    /\ previousStates \in {OnlyCommanded(s, NoEntry) : s \in Snapshots}
    /\ walletPnL \in {OnlyCommanded(w, NoEntry) : w \in {NoEntry, SeededWalletPnL}}
    /\ tradeEventsByWallet = [a \in Addresses |-> <<>>]
    /\ ticks = [k \in TickIds |-> IdleTick]
    /\ adds = [u \in Users |-> NoEntry]
    /\ timers = FirstTimers
    /\ stats = [a \in Addresses |-> NoEntry]
    /\ counters = [ticks |-> 0, changes |-> 0, commands |-> 0,
                   closes |-> [a \in Addresses |-> 0],
                   seen |-> [a \in Addresses |-> 0]]

DiffNext ==
    \/ TickStart(1)
    \/ \E a \in Addresses : FetchDone(1, a, TRUE)
    \/ \E a \in Addresses : ChartDone(1, a, TRUE)
    \/ \E a \in Addresses : SendDone(1, a)
    \/ TickEnd(1)

SpecDiff == DiffInit /\ [][DiffNext]_vars

\* the events of a diff that are about one symbol
EventsFor(diffs, sym) == SelectSeq(diffs, LAMBDA d : d.symbol = sym)

C12_DiffExact ==
    \A a \in Commanded :
        LET old == previousStates[a].positions
            new == upstream[a].positions
            diffs == comparePositions(previousStates[a], upstream[a])
        IN  /\ \A i \in 1..Len(diffs) : diffs[i].symbol \in Symbols
            /\ \A sym \in Symbols :
                   LET ev == EventsFor(diffs, sym)
                       inOld == \E i \in 1..Len(old) : old[i].symbol = sym
                       inNew == \E i \in 1..Len(new) : new[i].symbol = sym
                   IN  IF inNew /\ ~inOld
                       THEN Len(ev) = 1 /\ ev[1].action = "opened"
                       ELSE IF inOld /\ ~inNew
                       THEN Len(ev) = 1 /\ ev[1].action = "closed"
                       ELSE IF /\ inOld /\ inNew
                               /\ \E i \in 1..Len(old), j \in 1..Len(new) :
                                      /\ old[i].symbol = sym
                                      /\ new[j].symbol = sym
                                      /\ \/ old[i].position # new[j].position
                                         \/ old[i].avg_entry_price
                                                # new[j].avg_entry_price
                       THEN Len(ev) = 1 /\ ev[1].action \in {"increased", "reduced"}
                       ELSE ev = <<>>

\* a task is in its notification loop for a diff of a closed and an opened
\* position
C12_Witness ==
    \E a \in Addresses :
        /\ ticks[1].tasks[a].pc = "chart"
        /\ LET diffs == comparePositions(ticks[1].tasks[a].oldState,
                                         ticks[1].tasks[a].newState)
           IN  /\ Len(diffs) = 2
               /\ diffs[1].action = "closed"
               /\ diffs[2].action = "opened"

\* the rank of a symbol in ascending order of names
SymbolRank(sym) == IF sym = "BTC" THEN 1 ELSE 2

\* the diff a task in its notification loop is going through
TaskDiffs(k, a) ==
    comparePositions(ticks[k].tasks[a].oldState, ticks[k].tasks[a].newState)

InLoop(k, a) == ticks[k].tasks[a].pc \in {"chart", "send"}

\* C13: the events a task notifies come in ascending order of symbol name
C13_DiffSorted ==
    \A k \in TickIds, a \in Addresses :
        InLoop(k, a) =>
            \A i, j \in 1..Len(TaskDiffs(k, a)) :
                i < j => SymbolRank(TaskDiffs(k, a)[i].symbol)
                             < SymbolRank(TaskDiffs(k, a)[j].symbol)

\* C14: an entry price that changed at equal size is notified as neither
\* increased nor reduced
C14_EntryOnlyIsUpdated ==
    \A k \in TickIds, a \in Addresses, sym \in Symbols :
        LET old == ticks[k].tasks[a].oldState.positions
            new == ticks[k].tasks[a].newState.positions
            ev == EventsFor(TaskDiffs(k, a), sym)
        IN  (/\ InLoop(k, a)
             /\ HasKey(old, sym) /\ HasKey(new, sym)
             /\ Get(old, sym).position = Get(new, sym).position
             /\ Get(old, sym).avg_entry_price # Get(new, sym).avg_entry_price)
            => \A i \in 1..Len(ev) : ev[i].action \notin {"increased", "reduced"}

\* ---- what a step of the task does to the P&L state of an address
RealizedOf(w) == IF w = NoEntry THEN 0 ELSE w.realizedPnL

TradesCountOf(w) == IF w = NoEntry THEN 0 ELSE w.trades

HistoryOf(w) == IF w = NoEntry THEN <<>> ELSE w.tradeHistory

\* the trade records the step appended
Added(a) ==
    SubSeq(HistoryOf(walletPnL'[a]), Len(HistoryOf(walletPnL[a])) + 1,
           Len(HistoryOf(walletPnL'[a])))

RecordsFor(records, sym) == SelectSeq(records, LAMBDA tr : tr.symbol = sym)

\* getWalletEvents(address, symbol)
LedgerFor(events, sym) == SelectSeq(events, LAMBDA e : e.symbol = sym)

\* the task of callback k for the address leaves its fetch with an answer
\* and applies a diff
Applies(k, a) ==
    /\ ticks[k].tasks[a].pc = "fetching"
    /\ ticks'[k].tasks[a].pc = "chart"
    /\ ticks'[k].tasks[a].fetched = "ok"

EntryOnly(old, new, sym) ==
    /\ HasKey(old, sym) /\ HasKey(new, sym)
    /\ Get(old, sym).position = Get(new, sym).position
    /\ Get(old, sym).avg_entry_price # Get(new, sym).avg_entry_price

Closed(old, new, sym) == HasKey(old, sym) /\ ~HasKey(new, sym)

Reduced(old, new, sym) ==
    /\ HasKey(old, sym) /\ HasKey(new, sym)
    /\ Get(new, sym).position < Get(old, sym).position

\* what the closes and the partial closes of a diff are to realize
ClosedPnl(old, new, sym) ==
    IF Closed(old, new, sym) THEN Get(old, sym).unrealized_pnl ELSE 0

ReducedPnl(old, new, sym) ==
    IF Reduced(old, new, sym)
    THEN (Get(old, sym).unrealized_pnl
              * (Get(old, sym).position - Get(new, sym).position))
         \div Get(old, sym).position
    ELSE 0

\* C15: an entry price that changed at unchanged size gives one event and
\* sends the task into its notification loop, but no trade record and no
\* ledger marker for the symbol, and, no other symbol closing, realizedPnL
\* and trades stay as they are
C15_EntryOnlyFrame ==
    [][\A a \in Commanded, sym \in Symbols :
          LET old == previousStates[a].positions
              new == upstream[a].positions
          IN  EntryOnly(old, new, sym) =>
                /\ LedgerFor(tradeEventsByWallet'[a], sym)
                       = LedgerFor(tradeEventsByWallet[a], sym)
                /\ \A k \in TickIds :
                      (/\ ticks[k].tasks[a].pc = "fetching"
                       /\ ticks'[k].tasks[a].pc # "fetching")
                      => /\ Applies(k, a)
                         /\ Len(EventsFor(comparePositions(previousStates[a],
                                                           upstream[a]), sym)) = 1
                         /\ RecordsFor(Added(a), sym) = <<>>
                         /\ (\A other \in Symbols :
                                 ~Closed(old, new, other) /\ ~Reduced(old, new, other))
                            => /\ RealizedOf(walletPnL'[a]) = RealizedOf(walletPnL[a])
                               /\ TradesCountOf(walletPnL'[a])
                                      = TradesCountOf(walletPnL[a])]_vars

\* the notification of an entry-price-only change of BTC has been sent, the
\* trade history and the ledger are empty, realizedPnL and trades are the
\* earlier ones
C15_Witness ==
    \E a \in Addresses :
        /\ ticks[1].tasks[a].pc = "send"
        /\ EntryOnly(ticks[1].tasks[a].oldState.positions,
                     ticks[1].tasks[a].newState.positions, "BTC")
        /\ Len(TaskDiffs(1, a)) = 1
        /\ walletPnL[a] # NoEntry
        /\ walletPnL[a].tradeHistory = <<>>
        /\ walletPnL[a].realizedPnL = SeededWalletPnL.realizedPnL
        /\ walletPnL[a].trades = SeededWalletPnL.trades
        /\ tradeEventsByWallet[a] = <<>>

\* C16: for a position of the old snapshot that is absent from the new one
\* exactly one record is appended for the symbol, of type close with the old
\* unrealized P&L as pnl; apart from the partial closes of the same diff,
\* realizedPnL grows by exactly the closed amounts and trades by one per close
C16_CloseRecord ==
    [][\A k \in TickIds, a \in Addresses :
          LET old == previousStates[a].positions
              new == upstream[a].positions
              partial == SelectSeq(Added(a), LAMBDA tr : tr.type = "partial_close")
          IN  (Applies(k, a) /\ \E sym \in Symbols : Closed(old, new, sym)) =>
                /\ \A sym \in Symbols :
                       Closed(old, new, sym) =>
                         /\ Len(RecordsFor(Added(a), sym)) = 1
                         /\ RecordsFor(Added(a), sym)[1].type = "close"
                         /\ RecordsFor(Added(a), sym)[1].pnl
                                = Get(old, sym).unrealized_pnl
                /\ RealizedOf(walletPnL'[a]) - SumPnl(partial)
                       = RealizedOf(walletPnL[a]) + ClosedPnl(old, new, "BTC")
                             + ClosedPnl(old, new, "ETH")
                /\ TradesCountOf(walletPnL'[a]) - Len(partial)
                       = TradesCountOf(walletPnL[a])
                             + Cardinality({sym \in Symbols : Closed(old, new, sym)})]_vars

\* the BTC position with unrealized P&L 100 was closed on top of the earlier
\* realized amount
C16_Witness ==
    \E a \in Addresses :
        /\ walletPnL[a] # NoEntry
        /\ Len(walletPnL[a].tradeHistory) = 1
        /\ walletPnL[a].tradeHistory[1].type = "close"
        /\ walletPnL[a].tradeHistory[1].pnl = 100
        /\ walletPnL[a].realizedPnL = SeededWalletPnL.realizedPnL + 100
        /\ walletPnL[a].trades = SeededWalletPnL.trades + 1

\* C17: for a position whose size went down to a smaller nonzero size exactly
\* one record is appended for the symbol, of type partial_close, with the
\* size difference as size and the old unrealized P&L in the proportion of
\* the size difference to the old size as pnl (40 for sizes 10 and 6 and
\* unrealized P&L 100); realizedPnL grows by that and trades by one
C17_PartialClose ==
    [][\A k \in TickIds, a \in Addresses :
          LET old == previousStates[a].positions
              new == upstream[a].positions
          IN  (Applies(k, a) /\ \E sym \in Symbols : Reduced(old, new, sym)) =>
                /\ \A sym \in Symbols :
                       Reduced(old, new, sym) =>
                         LET rec == RecordsFor(Added(a), sym)
                             o == Get(old, sym)
                             n == Get(new, sym)
                         IN  /\ Len(rec) = 1
                             /\ rec[1].type = "partial_close"
                             /\ rec[1].size = o.position - n.position
                             /\ rec[1].pnl * o.position
                                    = o.unrealized_pnl * (o.position - n.position)
                             /\ (/\ o.position = 10 /\ n.position = 6
                                 /\ o.unrealized_pnl = 100) => rec[1].pnl = 40
                /\ RealizedOf(walletPnL'[a])
                       = RealizedOf(walletPnL[a])
                             + ClosedPnl(old, new, "BTC") + ClosedPnl(old, new, "ETH")
                             + ReducedPnl(old, new, "BTC") + ReducedPnl(old, new, "ETH")
                /\ TradesCountOf(walletPnL'[a])
                       = TradesCountOf(walletPnL[a])
                             + Cardinality({sym \in Symbols :
                                   Closed(old, new, sym) \/ Reduced(old, new, sym)})]_vars

\* the BTC position of size 10 with unrealized P&L 100 went down to size 6
\* on top of the earlier realized amount
C17_Witness ==
    \E a \in Addresses :
        /\ walletPnL[a] # NoEntry
        /\ Len(walletPnL[a].tradeHistory) = 1
        /\ walletPnL[a].tradeHistory[1].type = "partial_close"
        /\ walletPnL[a].tradeHistory[1].size = 4
        /\ walletPnL[a].tradeHistory[1].pnl = 40
        /\ walletPnL[a].realizedPnL = SeededWalletPnL.realizedPnL + 40
        /\ walletPnL[a].trades = SeededWalletPnL.trades + 1

BalanceHistoryOf(w) == IF w = NoEntry THEN <<>> ELSE w.balanceHistory

\* C18: every task that got an answer to its fetch for an address with a
\* stored snapshot appends a balance record for the address, whether the
\* diff is empty or not
C18_BalanceEveryTick ==
    [][\A k \in TickIds, a \in Addresses :
          (/\ ticks[k].tasks[a].pc = "fetching"
           /\ ticks'[k].tasks[a].pc # "fetching"
           /\ ticks'[k].tasks[a].fetched = "ok"
           /\ previousStates[a] # NoEntry)
          => Len(BalanceHistoryOf(walletPnL'[a]))
                 > Len(BalanceHistoryOf(walletPnL[a]))]_vars

\* the unrealized P&L of the position of a symbol, none for no position
UnrealizedIn(positions, sym) ==
    IF HasKey(positions, sym) THEN Get(positions, sym).unrealized_pnl ELSE 0

\* C25: after updateWalletPnL the unrealizedPnL of the address is the sum of
\* the unrealized P&L of the positions of the new snapshot, whatever it was
\* before and whatever the old snapshot holds
C25_UnrealizedFromNew ==
    [][\A k \in TickIds, a \in Addresses :
          Applies(k, a) =>
              walletPnL'[a].unrealizedPnL
                  = UnrealizedIn(upstream[a].positions, "BTC")
                        + UnrealizedIn(upstream[a].positions, "ETH")]_vars

\* an update replaced the earlier unrealized amount by the sum over a long
\* BTC position in profit and a short ETH position at a loss
C25_Witness ==
    \E a \in Addresses :
        /\ walletPnL[a] # NoEntry
        /\ walletPnL[a].realizedPnL = SeededWalletPnL.realizedPnL
        /\ walletPnL[a].unrealizedPnL = 98
        /\ ticks[1].tasks[a].pc = "chart"
        /\ Len(ticks[1].tasks[a].newState.positions) = 2

\* ---- the side of the chart marker
Opened(old, new, sym) == ~HasKey(old, sym) /\ HasKey(new, sym)

Increased(old, new, sym) ==
    /\ HasKey(old, sym) /\ HasKey(new, sym)
    /\ Get(new, sym).position > Get(old, sym).position

IsLong(positions, sym) == SideOf(Get(positions, sym)) = "LONG"

\* opening or increasing a LONG, closing or reducing a SHORT
IsBuy(old, new, sym) ==
    \/ (Opened(old, new, sym) \/ Increased(old, new, sym)) /\ IsLong(new, sym)
    \/ (Closed(old, new, sym) \/ Reduced(old, new, sym)) /\ ~IsLong(old, sym)

\* opening or increasing a SHORT, closing or reducing a LONG
IsSell(old, new, sym) ==
    \/ (Opened(old, new, sym) \/ Increased(old, new, sym)) /\ ~IsLong(new, sym)
    \/ (Closed(old, new, sym) \/ Reduced(old, new, sym)) /\ IsLong(old, sym)

\* the task of callback k for the address comes to the next event of its diff
EntersLoop(k, a) ==
    /\ ticks[k].tasks[a].pc \in {"fetching", "send"}
    /\ ticks'[k].tasks[a].pc = "chart"

TickInit ==
    /\ now = 0
    /\ RateIdle
    /\ FetchIdle
    /\ watchlist \in {[EmptyWatchlist EXCEPT !["u1"] = [a \in Addresses |-> "label"],
                                             !["u2"]["a1"] = l] :
                         l \in {"absent", "null", "label"}}
    /\ upstream \in [Addresses -> {UpstreamStates[1], UpstreamStates[2]}]
    /\ previousStates = [a \in Addresses |-> UpstreamStates[2]]
    /\ walletPnL = [a \in Addresses |-> NoEntry]
    /\ tradeEventsByWallet = [a \in Addresses |-> <<>>]
    /\ ticks = [k \in TickIds |-> IdleTick]
    /\ adds = [u \in Users |-> NoEntry]
    /\ timers = FirstTimers
    /\ stats = [a \in Addresses |-> NoEntry]
    /\ counters = [ticks |-> 0, changes |-> 0, commands |-> 0,
                   closes |-> [a \in Addresses |-> 0],
                   seen |-> [a \in Addresses |-> 0]]

TickNext ==
    \/ \E k \in TickIds : TickStart(k)
    \/ \E k \in TickIds, a \in Addresses, ok \in BOOLEAN : FetchDone(k, a, ok)
    \/ \E k \in TickIds, a \in Addresses, ok \in BOOLEAN : ChartDone(k, a, ok)
    \/ \E k \in TickIds, a \in Addresses : ChartHang(k, a)
    \/ \E k \in TickIds, a \in Addresses : SendDone(k, a)
    \/ \E k \in TickIds : TickEnd(k)

SpecTick == TickInit /\ [][TickNext]_vars

\* C19: a task that threw or stalled does not keep the callback from its end:
\* once every other task has ended, the callback can end and save the state
C19_TickIsolation ==
    \A k \in TickIds :
        (/\ ticks[k].running
         /\ \A a \in Addresses : ticks[k].tasks[a].pc \in {"none", "settled", "hung"})
        => ENABLED TickEnd(k)

\* C34: a step of the task of one address leaves the snapshot, the P&L
\* state and the ledger events of every other address as they are, whatever
\* the order in which the tasks of a callback run and complete.
C34_AddressesIndependent ==
    [][\A a, b \in Addresses :
          (/\ a # b
           /\ \E k \in TickIds :
                  /\ ticks[k].tasks[a].pc \notin {"none", "settled"}
                  /\ ticks'[k].tasks[a] # ticks[k].tasks[a])
          => /\ previousStates'[b] = previousStates[b]
             /\ walletPnL'[b] = walletPnL[b]
             /\ tradeEventsByWallet'[b] = tradeEventsByWallet[b]]_vars

\* the task of a2 ran to its end while the task of a1, started in the same
\* callback, still waits for its chart; both addresses had changed
C34_Witness ==
    /\ ticks[1].tasks["a1"].pc = "chart"
    /\ ticks[1].tasks["a2"].pc = "settled"
    /\ walletPnL["a1"] # NoEntry
    /\ walletPnL["a2"] # NoEntry
    /\ tradeEventsByWallet["a2"] # <<>>
    /\ previousStates["a2"] = UpstreamStates[1]
    /\ previousStates["a1"] = UpstreamStates[2]

\* C20: a callback that starts issues one fetch for each address some user
\* tracks and none for the others, and the recipients of the task are all
\* the users tracking the address; they stay the recipients through the
\* notification loop
C20_OneFetchPerAddress ==
    [][\A k \in TickIds, a \in Addresses :
          /\ (~ticks[k].running /\ ticks'[k].running) =>
                LET trackers == {u \in Users : watchlist[u][a] # "absent"}
                    task == ticks'[k].tasks[a]
                IN  IF trackers = {}
                    THEN task.pc = "none" /\ task.issued = 0
                    ELSE /\ task.pc = "fetching"
                         /\ task.issued = 1
                         /\ task.users = trackers
          /\ (/\ ticks[k].tasks[a].pc \in {"fetching", "chart", "send"}
              /\ ticks'[k].tasks[a].pc \in {"chart", "send"})
             => ticks'[k].tasks[a].users = ticks[k].tasks[a].users]_vars

\* a callback is sending the notification of the address two users track, to
\* both of them, after one fetch for that address and one for the other
C20_Witness ==
    \E k \in TickIds :
        /\ ticks[k].tasks["a1"].pc = "send"
        /\ ticks[k].tasks["a1"].users = {"u1", "u2"}
        /\ ticks[k].tasks["a1"].issued = 1
        /\ ticks[k].tasks["a2"].issued = 1
        /\ ticks[k].tasks["a2"].users = {"u1"}
        /\ watchlist["u2"]["a1"] = "null"

\* --------------------------------------------- fetch client specification
FetchInit ==
    /\ now = 0
    /\ RateIdle
    /\ FetchIdle
    /\ MonIdle

FetchNext ==
    \/ \E c \in CallIds, url \in Urls : StartCall(c, url)
    \/ \E c \in CallIds : NetSuccess(c)
    \/ \E c \in CallIds : NetFailure(c)
    \/ \E c \in CallIds : RetryTimer(c)
    \/ Resume
    \/ \E c \in CallIds, url \in Urls : ContinuationCall(c, url)
    \/ ContinuationEnd
    \/ FetchAdvance

SpecFetch == FetchInit /\ [][FetchNext]_vars

\* the invocations that have passed the gate and not run their finally block
SlotHolders == {c \in CallIds : calls[c].pc \in {"fetching", "retrywait"}}

\* C4: in every reachable state at most MAX_CONCURRENT_REQUESTS invocations
\* hold a slot: neither the counter activeRequests nor the number of
\* invocations between the gate and their finally block exceeds the bound.
C4_GateBound ==
    /\ activeRequests <= MAX_CONCURRENT_REQUESTS
    /\ Cardinality(SlotHolders) <= MAX_CONCURRENT_REQUESTS

\* a completion has just woken a queued caller while another holder sleeps
\* between two attempts
C4_Witness ==
    /\ activeRequests = MAX_CONCURRENT_REQUESTS - 1
    /\ \E c \in CallIds : calls[c].pc = "woken"
    /\ \E c \in CallIds : calls[c].pc = "retrywait"

\* C5: a call made less than CACHE_DURATION after the last success for its
\* url returns that payload at once, without invoking the transport and
\* without touching activeRequests or requestQueue; a call made when no
\* success is that recent is not answered from the cache: it takes a slot and
\* invokes the transport, or waits in requestQueue and invokes the transport
\* as soon as it is woken.
C5_CacheWindow ==
    [][\A c \in CallIds :
        /\ (calls[c].pc = "idle" /\ calls'[c].pc # "idle") =>
              LET u == calls'[c].url
              IN  IF /\ lastSuccess[u] # NoEntry
                     /\ now - lastSuccess[u].time < CACHE_DURATION
                  THEN /\ calls'[c].pc = "done"
                       /\ calls'[c].result = lastSuccess[u].data
                       /\ upstreamLog' = upstreamLog
                       /\ activeRequests' = activeRequests
                       /\ requestQueue' = requestQueue
                  ELSE \/ /\ calls'[c].pc = "fetching"
                          /\ upstreamLog'[u].n = upstreamLog[u].n + 1
                       \/ /\ calls'[c].pc = "queued"
                          /\ requestQueue' = Append(requestQueue, c)
        /\ (calls[c].pc = "woken" /\ calls'[c].pc # "woken") =>
              /\ calls'[c].pc = "fetching"
              /\ upstreamLog'[calls[c].url].n = upstreamLog[calls[c].url].n + 1
      ]_vars

\* a call has just been answered from the cache with a payload produced
\* earlier, for a url that was fetched again after an earlier entry expired
C5_Witness ==
    \E c \in CallIds :
        /\ calls[c].pc = "done"
        /\ calls[c].result # -1
        /\ calls[c].result < now
        /\ upstreamLog[calls[c].url].n >= 2
        /\ ~upstreamLog[calls[c].url].close

\* C6: for every url, no two invocations of the transport are less than
\* CACHE_DURATION apart.
C6_OneUpstreamPerWindow ==
    \A u \in Urls : ~upstreamLog[u].close

\* C21: an invocation calls fetch at most RETRY_ATTEMPTS + 1 times; a call of
\* fetch after the first comes at least RETRY_DELAY after the failure of the
\* one before; the invocation fails only after RETRY_ATTEMPTS + 1 failed
\* calls, and its failure writes nothing into the cache (a url nobody
\* fetched with success has no entry); an invocation that has returned calls
\* fetch no more.
C21_BoundedRetries ==
    [][\A c \in CallIds :
        /\ attemptLog'[c].n <= RETRY_ATTEMPTS + 1
        /\ (attemptLog'[c].n > attemptLog[c].n /\ attemptLog[c].n >= 1) =>
              /\ attemptLog[c].failedAt >= attemptLog[c].last
              /\ now - attemptLog[c].failedAt >= RETRY_DELAY
        /\ (calls[c].pc # "failed" /\ calls'[c].pc = "failed") =>
              /\ attemptLog'[c].n = RETRY_ATTEMPTS + 1
              /\ cache' = cache
              /\ lastSuccess[calls[c].url] = NoEntry => cache'[calls[c].url] = NoEntry
        /\ calls[c].pc \in {"done", "over"} => attemptLog'[c].n <= attemptLog[c].n
      ]_vars

\* an invocation has thrown after its last retry, RETRY_DELAY or more after
\* its first call of fetch, and its url has no cache entry
C21_Witness ==
    \E c \in CallIds :
        /\ calls[c].pc = "failed"
        /\ attemptLog[c].n = RETRY_ATTEMPTS + 1
        /\ attemptLog[c].last >= RETRY_DELAY
        /\ cache[calls[c].url] = NoEntry

InQueue(queue, c) == \E i \in 1..Len(queue) : queue[i] = c

PlaceIn(queue, c) == CHOOSE i \in 1..Len(queue) : queue[i] = c

\* C22: a caller that finds the gate saturated goes to the back of
\* requestQueue; a caller takes a slot without waiting only when nobody
\* waits; and when a waiter is given a slot, every caller still waiting
\* arrived after it.
C22_QueueFifo ==
    [][\A c \in CallIds :
        /\ (calls[c].pc # "queued" /\ calls'[c].pc = "queued") =>
              /\ requestQueue' # <<>>
              /\ requestQueue'[Len(requestQueue')] = c
        /\ (calls[c].pc \in {"idle", "retrywait"} /\ calls'[c].pc = "fetching") =>
              /\ requestQueue = <<>>
              /\ \A d \in CallIds : calls[d].pc # "woken"
        /\ (calls[c].pc # "woken" /\ calls'[c].pc = "woken") =>
              \A d \in CallIds :
                  (InQueue(requestQueue', d) /\ InQueue(requestQueue, d)) =>
                      /\ InQueue(requestQueue, c)
                      /\ PlaceIn(requestQueue, c) < PlaceIn(requestQueue, d)
        /\ \A d \in CallIds :
              (/\ InQueue(requestQueue, c) /\ InQueue(requestQueue, d)
               /\ InQueue(requestQueue', c) /\ InQueue(requestQueue', d)) =>
                  (PlaceIn(requestQueue, c) < PlaceIn(requestQueue, d)
                      <=> PlaceIn(requestQueue', c) < PlaceIn(requestQueue', d))
      ]_vars

\* a waiter has been given the slot a completion freed while a caller that
\* arrived after it still waits
C22_Witness ==
    \E c, d \in CallIds :
        /\ calls[c].pc = "woken"
        /\ calls[d].pc = "queued"
        /\ requestQueue = <<d>>
        /\ activeRequests = MAX_CONCURRENT_REQUESTS - 1

\* the invocations that are neither finished nor unborn
Outstanding ==
    {c \in CallIds : calls[c].pc \in {"queued", "woken", "fetching", "retrywait"}}

\* C35: activeRequests is never negative and is the number of invocations
\* that have passed the gate and not run their finally block (so each of
\* them gives its slot back once, however its attempt ended); with no
\* invocation outstanding it is 0 and requestQueue is empty.
C35_SlotAccounting ==
    /\ activeRequests >= 0
    /\ activeRequests = Cardinality(SlotHolders)
    /\ Outstanding = {} => activeRequests = 0 /\ requestQueue = <<>>

\* one invocation returned and one threw after its last attempt, more
\* attempts than invocations were made, and all slots are back
C35_Witness ==
    /\ activeRequests = 0
    /\ Outstanding = {}
    /\ \E c \in CallIds : calls[c].pc = "failed" /\ attemptLog[c].n > RETRY_ATTEMPTS
    /\ \E c \in CallIds : calls[c].pc = "done"
    /\ upstreamLog["account"].n + upstreamLog["candles"].n > NumCalls

\* C37: an invocation keeps the slot of its failed attempt while it waits
\* out RETRY_DELAY, and gives it back only after its next attempt has entered
\* the gate: with the gate full (its own slot counted) the next attempt
\* joins requestQueue behind the callers waiting there, and a caller that
\* arrives while all holders sleep is queued as well.
C37_SleeperKeepsSlot ==
    [][\A c \in CallIds :
          /\ (calls[c].pc = "fetching" /\ calls'[c].pc = "retrywait")
                 => activeRequests' = activeRequests
          /\ calls[c].pc = "retrywait" => c \in SlotHolders /\ activeRequests >= 1
          /\ (/\ calls[c].pc = "retrywait"
              /\ calls'[c].pc # "retrywait"
              /\ ~CacheValid(calls[c].url, now))
                 => IF activeRequests = MAX_CONCURRENT_REQUESTS
                    THEN /\ calls'[c].pc = IF requestQueue = <<>>
                                           THEN "woken" ELSE "queued"
                         /\ requestQueue # <<>> =>
                                requestQueue' = Append(Tail(requestQueue), c)
                    ELSE /\ calls'[c].pc = "fetching"
                         /\ activeRequests' = activeRequests
          /\ (/\ calls[c].pc = "idle"
              /\ calls'[c].pc # "idle"
              /\ ~CacheValid(calls'[c].url, now)
              /\ activeRequests = MAX_CONCURRENT_REQUESTS)
                 => calls'[c].pc = "queued"]_vars

\* a newcomer was queued while all holders slept between two attempts; then
\* the next attempt of one of them found the gate full and joined the queue
\* behind the newcomer, which its release has just woken
C37_Witness ==
    \E c, d \in CallIds :
        /\ calls[c].pc = "queued"
        /\ attemptLog[c].n = 1
        /\ attemptLog[c].failedAt # -1
        /\ calls[d].pc = "woken"
        /\ attemptLog[d].n = 0
        /\ requestQueue = <<c>>
        /\ activeRequests = MAX_CONCURRENT_REQUESTS - 1

\* --------------------------------------------- fetch client, with progress
\* the RETRY_DELAY timer of a frame that failed too late for the clock of the
\* specification to reach its due time: it fires all the same
LateTimer(c) ==
    /\ microtasks = <<>>
    /\ calls[c].pc = "retrywait"
    /\ now = FetchMaxTime
    /\ now - attemptLog[c].failedAt < RETRY_DELAY
    /\ SetGate(Settle(RetryThenRelease(Gate, c, calls[c].url,
                                       calls[c].retries - 1), c))
    /\ UNCHANGED <<now, cache, lastSuccess, rateVars, monVars>>

\* the program starts one unit before the clock of the specification stops
LiveInit ==
    /\ now = FetchMaxTime - 1
    /\ RateIdle
    /\ FetchIdle
    /\ MonIdle

LiveNext ==
    \/ FetchNext
    \/ \E c \in CallIds : LateTimer(c)

\* every attempt is answered, fails or is aborted by its timeout; every
\* timer fires; every promise job runs; the clock moves on
Progress ==
    /\ \A c \in CallIds : WF_vars(NetSuccess(c) \/ NetFailure(c))
    /\ \A c \in CallIds : WF_vars(RetryTimer(c) \/ LateTimer(c))
    /\ WF_vars(Resume)
    /\ WF_vars(ContinuationEnd)
    /\ WF_vars(FetchAdvance)

SpecFetchLive == LiveInit /\ [][LiveNext]_vars /\ Progress

\* C36: every invocation is again and again not outstanding, that is, once
\* started it returns or throws; and a caller leaves requestQueue only by
\* being woken and a woken caller goes on only by taking a slot, so every
\* caller waiting at the gate gets its slot.
C36_NoLostWakeup ==
    /\ \A c \in CallIds : []<>(c \notin Outstanding)
    /\ [][\A c \in CallIds :
            /\ (calls[c].pc = "queued" /\ calls'[c].pc # "queued")
                   => calls'[c].pc = "woken"
            /\ (calls[c].pc = "woken" /\ calls'[c].pc # "woken")
                   => calls'[c].pc = "fetching"]_vars

\* all holders sleep between two attempts while a newcomer waits in the queue
C36_Witness ==
    /\ activeRequests = MAX_CONCURRENT_REQUESTS
    /\ \A c \in SlotHolders : calls[c].pc = "retrywait"
    /\ \E c \in CallIds : calls[c].pc = "queued" /\ attemptLog[c].n = 0

\* ------------------------------------------------- rate gate specification
RateInit ==
    /\ now = 0
    /\ RateIdle
    /\ FetchIdle
    /\ MonIdle

RateCall == \E userId \in Users : checkRateLimit(userId)

RateAdvance == Advance(RateMaxTime) /\ UNCHANGED <<rateVars, fetchVars, monVars>>

RateNext == RateCall \/ RateAdvance

SpecRate == RateInit /\ [][RateNext]_vars

RATE_QUIET == RATE_WINDOW + 1   \* "61 seconds": one unit more than the window

\* C32: a rejected call leaves the stored window without a new timestamp (it
\* holds the admitted calls of the last RATE_WINDOW and nothing else), and a
\* call is admitted exactly when fewer than RATE_LIMIT_PER_USER admitted
\* calls lie in the window ending at it, whatever the stored blocked flag
\* says and however many calls were rejected before.
C32_RejectionNotSticky ==
    [][\A u \in Users \ WhitelistFile :
          lastCall'[u] # lastCall[u] =>
              /\ lastCall'[u].admitted
                     <=> Cardinality(AdmitsInWindow(u, now)) < RATE_LIMIT_PER_USER
              /\ ~lastCall'[u].admitted =>
                     /\ admitLog'[u] = admitLog[u]
                     /\ rateLimits'[u] # NoEntry
                     /\ rateLimits'[u].requests
                            = RecentRequests(admitLog[u], now)]_vars

\* a call is admitted one unit after a rejected one, the stored flag still
\* saying blocked when it arrives
C32_Witness ==
    /\ lastCall["u1"].admitted
    /\ ~lastCall["u1"].prevAdmitted
    /\ lastCall["u1"].prev # -1
    /\ lastCall["u1"].time - lastCall["u1"].prev = 1
    /\ Len(admitLog["u1"]) > RATE_LIMIT_PER_USER

\* C7: for a caller that is not whitelisted, every window of RATE_WINDOW holds
\* at most RATE_LIMIT_PER_USER admitted calls; a call is admitted exactly when
\* fewer than RATE_LIMIT_PER_USER admitted calls lie in the window ending at it
\* (so the limit+1th is rejected); and a call that follows RATE_QUIET or more
\* without any call is admitted and leaves a window holding only itself.
C7_RateWindow ==
    \A u \in Users \ WhitelistFile :
        /\ \A t \in 0..RateMaxTime :
               Cardinality(AdmitsInWindow(u, t)) <= RATE_LIMIT_PER_USER
        /\ lastCall[u].time # -1 =>
               /\ lastCall[u].admitted <=> lastCall[u].before < RATE_LIMIT_PER_USER
               /\ (/\ lastCall[u].prev # -1
                   /\ lastCall[u].time - lastCall[u].prev >= RATE_QUIET)
                  => /\ lastCall[u].admitted
                     /\ rateLimits[u] # NoEntry
                     /\ rateLimits[u].requests = <<lastCall[u].time>>

\* the limit was reached and a call was rejected, then, after a quiet period,
\* the caller is admitted again
C7_Witness ==
    /\ Len(admitLog["u1"]) > RATE_LIMIT_PER_USER
    /\ lastCall["u1"].admitted
    /\ lastCall["u1"].prev # -1
    /\ ~lastCall["u1"].prevAdmitted
    /\ lastCall["u1"].time - lastCall["u1"].prev >= RATE_QUIET
    /\ rateLimits["u1"].requests = <<lastCall["u1"].time>>

\* ------------------------------------------------- ledger specification
\* One tracked address whose snapshot is stored, callbacks one at a time and
\* every fetch and chart succeeding, while the clock runs and the two
\* cleaning timers fire: the hourly cleanup of the chart events and the daily
\* pruning of the P&L histories.
LedgerMaxTime == 6              \* SpecLedger: the clock stops advancing here
LedgerMaxTicks == 3             \* SpecLedger: monitor callbacks started
LedgerMaxChanges == 2           \* SpecLedger: changes of the upstream positions

\* empty, a long of 10 at entry 5, the same reduced to 6, the same at entry 6
LedgerStates ==
    << [balance |-> 10, positions |-> <<>>],
       [balance |-> 10, positions |-> <<Pos("BTC", 10, 5, 1, 100, 7)>>],
       [balance |-> 10, positions |-> <<Pos("BTC", 6, 5, 1, 60, 7)>>],
       [balance |-> 10, positions |-> <<Pos("BTC", 10, 6, 1, 100, 7)>>] >>

LedgerInit ==
    /\ now = 0
    /\ RateIdle
    /\ FetchIdle
    /\ watchlist = [EmptyWatchlist EXCEPT !["u1"] = OnlyCommanded("label", "absent")]
    /\ upstream = OnlyCommanded(LedgerStates[1], LedgerStates[1])
    /\ previousStates = OnlyCommanded(LedgerStates[1], NoEntry)
    /\ walletPnL = [a \in Addresses |-> NoEntry]
    /\ tradeEventsByWallet = [a \in Addresses |-> <<>>]
    /\ ticks = [k \in TickIds |-> IdleTick]
    /\ adds = [u \in Users |-> NoEntry]
    /\ timers = FirstTimers
    /\ stats = [a \in Addresses |-> NoEntry]
    /\ counters = [ticks |-> 0, changes |-> 0, commands |-> 0,
                   closes |-> [a \in Addresses |-> 0],
                   seen |-> [a \in Addresses |-> 0]]

\* the positions source changes
LedgerChange(a, s) ==
    /\ counters.changes < LedgerMaxChanges
    /\ LedgerStates[s] # upstream[a]
    /\ upstream' = [upstream EXCEPT ![a] = LedgerStates[s]]
    /\ counters' = [counters EXCEPT !.changes = @ + 1]
    /\ UNCHANGED <<now, rateVars, fetchVars, otherVars, watchlist, previousStates,
                   walletPnL, tradeEventsByWallet, ticks, adds>>

LedgerTickStart ==
    /\ counters.ticks < LedgerMaxTicks
    /\ StartCallback(1)

\* the clock moves on between two callbacks (a callback takes seconds, the
\* unit of the clock is hours); both timers fire when they are due
LedgerAdvance ==
    /\ now < LedgerMaxTime
    /\ now < timers.cleanup
    /\ now < timers.prune
    /\ ~ticks[1].running
    /\ now' = now + 1
    /\ UNCHANGED <<rateVars, fetchVars, monVars>>

\* events.filter(e => now - e.time < 86400), over every symbol
FreshEvents(events, t) == SelectSeq(events, LAMBDA e : t - e.time < EVENT_MAX_AGE)

\* the setInterval callback of lines 1304-1324: every array of every wallet is
\* filtered, arrays and wallets left empty are deleted
Cleanup ==
    /\ now >= timers.cleanup
    /\ tradeEventsByWallet' =
           [a \in Addresses |-> FreshEvents(tradeEventsByWallet[a], now)]
    /\ timers' = [timers EXCEPT !.cleanup = @ + CLEANUP_PERIOD]
    /\ UNCHANGED <<now, rateVars, fetchVars, stats, watchlist, previousStates,
                   walletPnL, upstream, ticks, adds, counters>>

\* history.filter(record => record.timestamp > thirtyDaysAgo)
FreshRecords(history, t) ==
    SelectSeq(history, LAMBDA r : r.timestamp > t - PNL_MAX_AGE)

\* the plausible slip: the counter is set to what the pruned history shows
PrunedPnLRecount(entry, t) ==
    IF entry = NoEntry THEN NoEntry
    ELSE [entry EXCEPT !.tradeHistory = FreshRecords(@, t),
                       !.balanceHistory = FreshRecords(@, t),
                       !.trades = Len(SelectSeq(FreshRecords(entry.tradeHistory, t),
                                                IsClosing))]

PrunedPnL(entry, t) ==
    IF entry = NoEntry THEN NoEntry
    ELSE [entry EXCEPT !.tradeHistory = FreshRecords(@, t),
                       !.balanceHistory = FreshRecords(@, t)]

\* the setInterval callback of lines 1338-1356
PrunePnL ==
    /\ now >= timers.prune
    /\ walletPnL' = [a \in Addresses |-> PrunedPnL(walletPnL[a], now)]
    /\ timers' = [timers EXCEPT !.prune = @ + PRUNE_PERIOD]
    /\ UNCHANGED <<now, rateVars, fetchVars, stats, watchlist, previousStates,
                   tradeEventsByWallet, upstream, ticks, adds, counters>>

LedgerNext ==
    \/ \E a \in Commanded, s \in 1..Len(LedgerStates) : LedgerChange(a, s)
    \/ LedgerTickStart
    \/ \E a \in Addresses : FetchDone(1, a, TRUE)
    \/ \E a \in Addresses : ChartDone(1, a, TRUE)
    \/ \E a \in Addresses : SendDone(1, a)
    \/ TickEnd(1)
    \/ LedgerAdvance
    \/ Cleanup
    \/ PrunePnL

SpecLedger == LedgerInit /\ [][LedgerNext]_vars

\* C24: in every reachable state, whatever updates and prunings came before,
\* the total P&L of a tracked wallet is its realized plus its unrealized P&L.
C24_TotalIsSum ==
    \A a \in Addresses :
        walletPnL[a] # NoEntry =>
            walletPnL[a].totalPnL
                = walletPnL[a].realizedPnL + walletPnL[a].unrealizedPnL

\* a partial close left realized and unrealized amounts, and the pruning
\* then removed the records they came from
C24_Witness ==
    /\ walletPnL["a1"] # NoEntry
    /\ walletPnL["a1"].realizedPnL = 40
    /\ walletPnL["a1"].unrealizedPnL = 60
    /\ walletPnL["a1"].totalPnL = 100
    /\ walletPnL["a1"].tradeHistory = <<>>

\* C27: whenever the chart of a diff is rendered, no event handed to the
\* renderer (the events of the wallet and the symbol of the diff) is older
\* than EVENT_MAX_AGE.
C27_ChartEventsFresh ==
    [][\A a \in Addresses :
          (/\ ticks[1].tasks[a].pc = "chart"
           /\ ticks'[1].tasks[a].pc = "send")
          => LET task == ticks[1].tasks[a]
                 sym == comparePositions(task.oldState, task.newState)[task.i].symbol
                 events == LedgerFor(tradeEventsByWallet[a], sym)
             IN  \A i \in 1..Len(events) : now - events[i].time <= EVENT_MAX_AGE]_vars

\* ------------------------------------------ history cap specification
\* The callback over a wallet whose histories are at or just below the cap:
\* every pair of stored and fetched snapshots, every fetch and chart
\* succeeding.
CapSlack == 2                   \* SpecCap: how far below the cap the histories start

\* an earlier record of the trade history
SeedTrade(i) ==
    [symbol |-> "BTC", side |-> "LONG", size |-> 1, entryPrice |-> 5,
     exitPrice |-> 0, pnl |-> 0, timestamp |-> i, type |-> "increase"]

\* a P&L state with nt trade records and nb balance records
LongWalletPnL(nt, nb) ==
    [NewWalletPnL(10, 0) EXCEPT
        !.tradeHistory = [i \in 1..nt |-> SeedTrade(i)],
        !.balanceHistory = [i \in 1..nb |-> [balance |-> 10, timestamp |-> i - 1]]]

CapInit ==
    /\ now = HISTORY_CAP + 1
    /\ RateIdle
    /\ FetchIdle
    /\ watchlist = [EmptyWatchlist EXCEPT !["u1"] = OnlyCommanded("label", "absent")]
    /\ upstream \in {OnlyCommanded(s, UpstreamStates[1]) : s \in Snapshots}
    /\ previousStates \in {OnlyCommanded(s, NoEntry) : s \in Snapshots}
    /\ walletPnL \in {OnlyCommanded(LongWalletPnL(nt, nb), NoEntry) :
                         nt \in (HISTORY_CAP - CapSlack)..HISTORY_CAP,
                         nb \in (HISTORY_CAP - 1)..HISTORY_CAP}
    /\ tradeEventsByWallet = [a \in Addresses |-> <<>>]
    /\ ticks = [k \in TickIds |-> IdleTick]
    /\ adds = [u \in Users |-> NoEntry]
    /\ timers = FirstTimers
    /\ stats = [a \in Addresses |-> NoEntry]
    /\ counters = [ticks |-> 0, changes |-> 0, commands |-> 0,
                   closes |-> [a \in Addresses |-> 0],
                   seen |-> [a \in Addresses |-> 0]]

SpecCap == CapInit /\ [][DiffNext]_vars

\* the last entries of a list, at most HISTORY_CAP of them, in their order
NewestOf(history) ==
    LET kept == IF Len(history) > HISTORY_CAP THEN HISTORY_CAP ELSE Len(history)
    IN  [i \in 1..kept |-> history[Len(history) - kept + i]]

\* C26: after every update both histories hold at most HISTORY_CAP entries,
\* and each is the earlier history followed by the new records with only its
\* oldest entries removed: the survivors keep their order and their contents.
C26_HistoryCap ==
    [][\A a \in Addresses :
          walletPnL'[a] # walletPnL[a] =>
              LET oldState == previousStates[a]
                  newState == upstream[a]
                  added == TradesOver(AllSymbols(oldState.positions,
                                                 newState.positions),
                                      oldState.positions, newState.positions, now)
                  record == [balance |-> newState.balance, timestamp |-> now]
              IN  /\ Len(walletPnL'[a].tradeHistory) <= HISTORY_CAP
                  /\ Len(walletPnL'[a].balanceHistory) <= HISTORY_CAP
                  /\ walletPnL'[a].tradeHistory
                         = NewestOf(walletPnL[a].tradeHistory \o added)
                  /\ walletPnL'[a].balanceHistory
                         = NewestOf(Append(walletPnL[a].balanceHistory, record))]_vars

\* both histories were full, an update added two trade records and one
\* balance record, and the two oldest trade records and the oldest balance
\* record are gone
C26_Witness ==
    /\ walletPnL["a1"] # NoEntry
    /\ Len(walletPnL["a1"].tradeHistory) = HISTORY_CAP
    /\ Len(walletPnL["a1"].balanceHistory) = HISTORY_CAP
    /\ walletPnL["a1"].tradeHistory[1] = SeedTrade(3)
    /\ walletPnL["a1"].tradeHistory[HISTORY_CAP].timestamp = HISTORY_CAP + 1
    /\ walletPnL["a1"].balanceHistory[1].timestamp = 1
    /\ walletPnL["a1"].balanceHistory[HISTORY_CAP].timestamp = HISTORY_CAP + 1

\* --------------------------------------------------- getWalletPnLStats
\* one unit of the clock in hours (EVENT_MAX_AGE units are 24 hours)
UnitHours == 24 \div EVENT_MAX_AGE

\* what / yields: a quotient, or NaN or an infinity when the divisor is 0
Quot(n, d) ==
    IF d # 0
    THEN [kind |-> "number", num |-> IF d < 0 THEN -n ELSE n, den |-> Abs(d)]
    ELSE IF n = 0 THEN [kind |-> "NaN"]
    ELSE IF n > 0 THEN [kind |-> "Infinity"]
    ELSE [kind |-> "-Infinity"]

IsQuot(q) == q.kind = "number"

\* the number literal 0
ZERO == Quot(0, 1)

\* a > b for two values of Quot; every comparison with NaN is false
Greater(a, b) ==
    IF a.kind = "NaN" \/ b.kind = "NaN" THEN FALSE
    ELSE IF a.kind = "Infinity" THEN b.kind # "Infinity"
    ELSE IF a.kind = "-Infinity" THEN FALSE
    ELSE IF b.kind = "Infinity" THEN FALSE
    ELSE IF b.kind = "-Infinity" THEN TRUE
    ELSE a.num * b.den > b.num * a.den

\* Number.prototype.toFixed(digits): the decimal rounded to that many places
\* (ties away from zero) as a count of its last place; NaN and the
\* infinities come out as their names
toFixed(q, digits) ==
    IF ~IsQuot(q) THEN [kind |-> "text", text |-> q.kind]
    ELSE LET scale == IF digits = 1 THEN 10 ELSE 100
             n == Abs(q.num) * scale
             rounded == (2 * n + q.den) \div (2 * q.den)
         IN  [kind |-> "fixed", places |-> digits,
              count |-> IF q.num < 0 THEN -rounded ELSE rounded]

INFINITE == [kind |-> "text", text |-> "infinite"]   \* the infinity sign
NOT_APPLICABLE == [kind |-> "text", text |-> "N/A"]

\* the plausible slip: the ratio is taken without looking for losing trades
profitFactorUnguarded(winningTrades, losingTrades) ==
    toFixed(Quot(SumPnl(winningTrades), Abs(SumPnl(losingTrades))), 2)

\* lines 413-415
profitFactor(winningTrades, losingTrades) ==
    IF Len(losingTrades) > 0
    THEN toFixed(Quot(SumPnl(winningTrades), Abs(SumPnl(losingTrades))), 2)
    ELSE IF Len(winningTrades) > 0 THEN INFINITE ELSE NOT_APPLICABLE

\* stats.tradeHistory.find(...): the first record in the order of the
\* history that is an open of the same symbol and side with an earlier
\* timestamp, as a list of none or one
FindOpen(tradeHistory, trade) ==
    LET matches == SelectSeq(tradeHistory,
                       LAMBDA t : /\ t.symbol = trade.symbol
                                  /\ t.side = trade.side
                                  /\ t.type = "open"
                                  /\ t.timestamp < trade.timestamp)
    IN  IF matches = <<>> THEN <<>> ELSE <<Head(matches)>>

\* the holding time of one closing trade in hours, 0 without an open record
HoldTime(tradeHistory, trade) ==
    LET openTrade == FindOpen(tradeHistory, trade)
    IN  IF openTrade # <<>>
        THEN (trade.timestamp - openTrade[1].timestamp) * UnitHours
        ELSE 0

RECURSIVE SumSeq(_)
SumSeq(numbers) ==
    IF numbers = <<>> THEN 0 ELSE Head(numbers) + SumSeq(Tail(numbers))

\* lines 422-439
avgHoldTime(tradeHistory, closedTrades) ==
    LET all == [i \in 1..Len(closedTrades) |-> HoldTime(tradeHistory, closedTrades[i])]
        holdTimes == SelectSeq(all, LAMBDA time : time > 0)
    IN  IF Len(closedTrades) > 0 /\ Len(holdTimes) > 0
        THEN toFixed(Quot(SumSeq(holdTimes), Len(holdTimes)), 1)
        ELSE ZERO

\* the plausible slip: the closing records are summed into the equity too
TotalValueAll(tradeHistory, record) ==
    record.balance
        + SumPnl(SelectSeq(tradeHistory,
                     LAMBDA t : t.timestamp <= record.timestamp))

\* the effective equity of lines 397-399 at one balance record
TotalValue(tradeHistory, record) ==
    record.balance
        + SumPnl(SelectSeq(tradeHistory,
                     LAMBDA t : /\ t.timestamp <= record.timestamp
                                /\ t.type \notin {"close", "partial_close"}))

\* the forEach of lines 396-410 from balance record i on
RECURSIVE Drawdown(_, _, _, _, _)
Drawdown(tradeHistory, balanceHistory, i, peak, maxDrawdown) ==
    IF i > Len(balanceHistory) THEN maxDrawdown
    ELSE LET totalValue == TotalValue(tradeHistory, balanceHistory[i])
             currentDrawdown == Quot((peak - totalValue) * 100, peak)
         IN  IF totalValue > peak
             THEN Drawdown(tradeHistory, balanceHistory, i + 1, totalValue,
                           maxDrawdown)
             ELSE Drawdown(tradeHistory, balanceHistory, i + 1, peak,
                           IF Greater(currentDrawdown, maxDrawdown)
                           THEN currentDrawdown ELSE maxDrawdown)

\* what getWalletPnLStats(address) returns at time t
getWalletPnLStats(entry, t) ==
    IF entry = NoEntry THEN [kind |-> "null"]
    ELSE LET closedTrades == SelectSeq(entry.tradeHistory, IsClosing)
             winningTrades == SelectSeq(closedTrades, LAMBDA tr : tr.pnl > 0)
             losingTrades == SelectSeq(closedTrades, LAMBDA tr : tr.pnl < 0)
             daysTracked == Quot(t - entry.startTime, EVENT_MAX_AGE)
         IN  [kind |-> "stats", wallet |-> entry,
              daysTracked |-> toFixed(daysTracked, 1),
              avgPnLPerDay |->
                  IF Greater(daysTracked, Quot(1, 10))
                  THEN toFixed(Quot(entry.totalPnL * EVENT_MAX_AGE,
                                    t - entry.startTime), 2)
                  ELSE NOT_APPLICABLE,
              avgPnLPerTrade |->
                  IF Len(closedTrades) > 0
                  THEN toFixed(Quot(entry.realizedPnL, Len(closedTrades)), 2)
                  ELSE ZERO,
              winRate |->
                  IF Len(closedTrades) > 0
                  THEN toFixed(Quot(Len(winningTrades) * 100, Len(closedTrades)), 1)
                  ELSE ZERO,
              avgWin |->
                  IF Len(winningTrades) > 0
                  THEN toFixed(Quot(SumPnl(winningTrades), Len(winningTrades)), 2)
                  ELSE ZERO,
              avgLoss |->
                  IF Len(losingTrades) > 0
                  THEN toFixed(Quot(SumPnl(losingTrades), Len(losingTrades)), 2)
                  ELSE ZERO,
              maxDrawdown |->
                  toFixed(Drawdown(entry.tradeHistory, entry.balanceHistory, 1,
                                   entry.initialBalance, ZERO), 2),
              totalTrades |-> Len(closedTrades),
              winningTrades |-> Len(winningTrades),
              losingTrades |-> Len(losingTrades),
              profitFactor |-> profitFactor(winningTrades, losingTrades),
              expectancy |->
                  IF Len(closedTrades) > 0
                  THEN toFixed(Quot(SumPnl(winningTrades) + SumPnl(losingTrades),
                                    Len(closedTrades)), 2)
                  ELSE NOT_APPLICABLE,
              avgHoldTime |-> avgHoldTime(entry.tradeHistory, closedTrades)]

\* ------------------------------------------------ statistics specification
\* The statistics of a wallet whose trade history was written by a run of
\* updates, one record per update: a BTC long and an ETH short, each opened,
\* reduced and closed in turn with gains and losses; the position may have
\* been open before the history starts (its open record pruned, or the
\* position there at the first observation).
StatsMaxLen == 4                \* SpecStats: records in the trade history

Trade(sym, side, type, pnl, t) ==
    [symbol |-> sym, side |-> side, size |-> 1, entryPrice |-> 5,
     exitPrice |-> IF type \in {"close", "partial_close"} THEN 7 ELSE 0,
     pnl |-> pnl, timestamp |-> t, type |-> type]

\* the records the update at time t can append, with the positions it leaves
HistorySteps(btcOpen, ethOpen, t) ==
    (IF btcOpen
     THEN {[trade |-> Trade("BTC", "LONG", "close", pnl, t),
            btcOpen |-> FALSE, ethOpen |-> ethOpen] : pnl \in {-2, 0, 3}}
          \cup {[trade |-> Trade("BTC", "LONG", "partial_close", 3, t),
                 btcOpen |-> TRUE, ethOpen |-> ethOpen]}
     ELSE {[trade |-> Trade("BTC", "LONG", "open", 0, t),
            btcOpen |-> TRUE, ethOpen |-> ethOpen]})
    \cup
    (IF ethOpen
     THEN {[trade |-> Trade("ETH", "SHORT", "close", pnl, t),
            btcOpen |-> btcOpen, ethOpen |-> FALSE] : pnl \in {-1, 2}}
     ELSE {[trade |-> Trade("ETH", "SHORT", "open", 0, t),
            btcOpen |-> btcOpen, ethOpen |-> TRUE]})

RECURSIVE HistoriesFrom(_, _, _)
HistoriesFrom(history, btcOpen, ethOpen) ==
    {history} \cup
    (IF Len(history) = StatsMaxLen THEN {}
     ELSE UNION {HistoriesFrom(Append(history, step.trade),
                               step.btcOpen, step.ethOpen) :
                    step \in HistorySteps(btcOpen, ethOpen, Len(history) + 1)})

Histories == HistoriesFrom(<<>>, FALSE, FALSE) \cup HistoriesFrom(<<>>, TRUE, FALSE)

\* the P&L state the updates that wrote the history left
WalletWith(history) ==
    LET closing == SelectSeq(history, IsClosing)
    IN  [NewWalletPnL(10, 0) EXCEPT
            !.tradeHistory = history,
            !.realizedPnL = SumPnl(closing),
            !.trades = Len(closing),
            !.totalPnL = SumPnl(closing),
            !.balanceHistory =
                @ \o [i \in 1..Len(history) |->
                         [balance |-> 10, timestamp |-> history[i].timestamp]]]

StatsInit ==
    /\ now = StatsMaxLen + 1
    /\ RateIdle
    /\ FetchIdle
    /\ watchlist = [EmptyWatchlist EXCEPT !["u1"] = OnlyCommanded("label", "absent")]
    /\ upstream = OnlyCommanded(UpstreamStates[1], UpstreamStates[1])
    /\ previousStates = OnlyCommanded(UpstreamStates[1], NoEntry)
    /\ walletPnL \in {OnlyCommanded(WalletWith(h), NoEntry) : h \in Histories}
    /\ tradeEventsByWallet = [a \in Addresses |-> <<>>]
    /\ ticks = [k \in TickIds |-> IdleTick]
    /\ adds = [u \in Users |-> NoEntry]
    /\ timers = FirstTimers
    /\ stats = [a \in Addresses |-> NoEntry]
    /\ counters = [ticks |-> 0, changes |-> 0, commands |-> 0,
                   closes |-> [a \in Addresses |-> 0],
                   seen |-> [a \in Addresses |-> 0]]

\* a command that shows the statistics of an address calls getWalletPnLStats
PnlCommand(a) ==
    /\ stats' = [stats EXCEPT ![a] = getWalletPnLStats(walletPnL[a], now)]
    /\ UNCHANGED <<now, rateVars, fetchVars, timers, watchlist, previousStates,
                   walletPnL, tradeEventsByWallet, upstream, ticks, adds, counters>>

StatsNext == \E a \in Addresses : PnlCommand(a)

SpecStats == StatsInit /\ [][StatsNext]_vars

\* the open records a closing trade can be matched to
EarlierOpens(tradeHistory, trade) ==
    SelectSeq(tradeHistory,
              LAMBDA t : /\ t.symbol = trade.symbol
                         /\ t.side = trade.side
                         /\ t.type = "open"
                         /\ t.timestamp < trade.timestamp)

\* the holding time from the latest of the earlier open records
HoldFromLatest(tradeHistory, trade) ==
    LET opens == EarlierOpens(tradeHistory, trade)
    IN  (trade.timestamp - opens[Len(opens)].timestamp) * UnitHours

\* the mean over the closing trades that have an earlier open record
MeanHoldFromLatest(tradeHistory) ==
    LET matched == SelectSeq(tradeHistory,
                       LAMBDA t : /\ IsClosing(t)
                                  /\ EarlierOpens(tradeHistory, t) # <<>>)
        holdTimes == [i \in 1..Len(matched) |->
                         HoldFromLatest(tradeHistory, matched[i])]
    IN  IF matched = <<>> THEN ZERO
        ELSE toFixed(Quot(SumSeq(holdTimes), Len(holdTimes)), 1)

\* C29: the average holding time is the mean, over the closing trades that
\* have an earlier open record of their symbol and side, of the time since
\* the most recent such record; closing trades without one are left out.
C29_HoldFromLatestOpen ==
    \A a \in Addresses :
        stats[a] # NoEntry /\ stats[a].kind = "stats" =>
            stats[a].avgHoldTime = MeanHoldFromLatest(stats[a].wallet.tradeHistory)

DivisionByZero == {[kind |-> "text", text |-> k] : k \in {"NaN", "Infinity", "-Infinity"}}

\* C30: with no losing and at least one winning closed trade the profit
\* factor is reported as infinite, and for every history neither the profit
\* factor nor the win rate nor the average win or loss is the outcome of a
\* division by zero.
C30_ProfitFactorInfinite ==
    \A a \in Addresses :
        stats[a] # NoEntry /\ stats[a].kind = "stats" =>
            LET closed == SelectSeq(stats[a].wallet.tradeHistory, IsClosing)
                wins == SelectSeq(closed, LAMBDA tr : tr.pnl > 0)
                losses == SelectSeq(closed, LAMBDA tr : tr.pnl < 0)
            IN  /\ (losses = <<>> /\ wins # <<>>)
                       => stats[a].profitFactor = INFINITE
                /\ {stats[a].profitFactor, stats[a].winRate, stats[a].avgWin,
                    stats[a].avgLoss} \cap DivisionByZero = {}

\* the statistics of a history with two winning closes, a close at 0 and no
\* losing one
C30_Witness ==
    /\ stats["a1"] # NoEntry
    /\ stats["a1"].kind = "stats"
    /\ stats["a1"].winningTrades = 2
    /\ stats["a1"].totalTrades = 3
    /\ stats["a1"].losingTrades = 0
    /\ stats["a1"].profitFactor = INFINITE

\* C31: the profit factor is "not applicable" when the history holds no
\* close and no partial_close record, and a number or infinite whenever it
\* holds at least one.
C31_ProfitFactorKinds ==
    \A a \in Addresses :
        stats[a] # NoEntry /\ stats[a].kind = "stats" =>
            LET closed == SelectSeq(stats[a].wallet.tradeHistory, IsClosing)
            IN  IF closed = <<>>
                THEN stats[a].profitFactor = NOT_APPLICABLE
                ELSE \/ stats[a].profitFactor = INFINITE
                     \/ stats[a].profitFactor.kind = "fixed"

\* ------------------------------------------------ bookkeeping specification
\* The callback and the pruning timer over a wallet whose trade history is at
\* or just below the cap and complete so far: round trips of a BTC long, an
\* open and a close with a gain of 1 in turn, the counters saying what the
\* history shows. The pruning timer is due.
BookTrade(i) ==
    IF i % 2 = 1
    THEN [symbol |-> "BTC", side |-> "LONG", size |-> 1, entryPrice |-> 5,
          exitPrice |-> 0, pnl |-> 0, timestamp |-> i, type |-> "open"]
    ELSE [symbol |-> "BTC", side |-> "LONG", size |-> 1, entryPrice |-> 5,
          exitPrice |-> 7, pnl |-> 1, timestamp |-> i, type |-> "close"]

BookWalletPnL(nt) ==
    [NewWalletPnL(10, 0) EXCEPT
        !.tradeHistory = [i \in 1..nt |-> BookTrade(i)],
        !.trades = nt \div 2,
        !.realizedPnL = nt \div 2,
        !.totalPnL = nt \div 2]

BooksInit ==
    /\ now = HISTORY_CAP + 1
    /\ RateIdle
    /\ FetchIdle
    /\ watchlist = [EmptyWatchlist EXCEPT !["u1"] = OnlyCommanded("label", "absent")]
    /\ upstream \in {OnlyCommanded(UpstreamStates[s], UpstreamStates[1]) :
                        s \in 1..Len(UpstreamStates)}
    /\ previousStates \in {OnlyCommanded(UpstreamStates[s], NoEntry) :
                              s \in 1..Len(UpstreamStates)}
    /\ walletPnL \in {OnlyCommanded(BookWalletPnL(nt), NoEntry) :
                         nt \in (HISTORY_CAP - CapSlack)..HISTORY_CAP}
    /\ tradeEventsByWallet = [a \in Addresses |-> <<>>]
    /\ ticks = [k \in TickIds |-> IdleTick]
    /\ adds = [u \in Users |-> NoEntry]
    /\ timers = [cleanup |-> now + CLEANUP_PERIOD, prune |-> now]
    /\ stats = [a \in Addresses |-> NoEntry]
    /\ counters = [ticks |-> 0, changes |-> 0, commands |-> 0,
                   closes |-> [a \in Addresses |-> 0],
                   seen |-> [a \in Addresses |-> 0]]

BooksNext ==
    \/ DiffNext
    \/ PrunePnL

SpecBooks == BooksInit /\ [][BooksNext]_vars

\* the sum of the pnl of the records lo..hi of a list
RECURSIVE PnlOver(_, _, _)
PnlOver(trades, lo, hi) ==
    IF lo > hi THEN 0
    ELSE IF lo = hi THEN trades[lo].pnl
    ELSE PnlOver(trades, lo, (lo + hi) \div 2)
             + PnlOver(trades, (lo + hi) \div 2 + 1, hi)

\* the counters say what the closing records of the history show
ShownByHistory(entry) ==
    LET closing == SelectSeq(entry.tradeHistory, IsClosing)
    IN  /\ entry.trades = Len(closing)
        /\ entry.realizedPnL = PnlOver(closing, 1, Len(closing))

\* C38: an update raises trades by the number of close and partial_close
\* records it appends and realizedPnL by the sum of their pnl; every other
\* change of a P&L state (the pruning; the cap is part of the update) leaves
\* both as they are; and when the counters said what the history shows and
\* the update removed no record, they still do.
C38_CountersFollowRecords ==
    [][\A a \in Addresses :
          (walletPnL[a] # NoEntry /\ walletPnL'[a] # NoEntry
           /\ walletPnL'[a] # walletPnL[a])
          => IF ticks'[1].tasks[a] # ticks[1].tasks[a]
             THEN LET added == TradesOver(AllSymbols(previousStates[a].positions,
                                                     upstream[a].positions),
                                          previousStates[a].positions,
                                          upstream[a].positions, now)
                      closing == SelectSeq(added, IsClosing)
                  IN  /\ walletPnL'[a].trades = walletPnL[a].trades + Len(closing)
                      /\ walletPnL'[a].realizedPnL
                             = walletPnL[a].realizedPnL
                                   + PnlOver(closing, 1, Len(closing))
                      /\ (/\ ShownByHistory(walletPnL[a])
                          /\ walletPnL'[a].tradeHistory
                                 = walletPnL[a].tradeHistory \o added)
                             => ShownByHistory(walletPnL'[a])
             ELSE /\ walletPnL'[a].trades = walletPnL[a].trades
                  /\ walletPnL'[a].realizedPnL = walletPnL[a].realizedPnL]_vars

\* the history was full, an update appended a close and the cap removed the
\* oldest record, then the pruning removed all but the latest records: the
\* counters still count every closing record that was appended
C38_Witness ==
    /\ walletPnL["a1"] # NoEntry
    /\ walletPnL["a1"].trades = HISTORY_CAP \div 2 + 1
    /\ Len(walletPnL["a1"].tradeHistory) <= PNL_MAX_AGE
    /\ timers.prune > now
    /\ ~ShownByHistory(walletPnL["a1"])

\* ------------------------------------------------- equity specification
\* One address added by /add, whose fetch succeeded or failed, then watched
\* while its balance and its position change, a fetch fails now and then
\* and the statistics are asked for, the clock running up to the first firing
\* of a cleaning timer.
\* empty, a long of 10, the same reduced to 6 with a higher balance, the long
\* of 10 with a lower balance
EquityStates ==
    << [balance |-> 10, positions |-> <<>>],
       [balance |-> 8, positions |-> <<Pos("BTC", 10, 5, 1, 100, 7)>>],
       [balance |-> 12, positions |-> <<Pos("BTC", 6, 5, 1, 60, 7)>>],
       [balance |-> 3, positions |-> <<Pos("BTC", 10, 5, 1, 100, 7)>>] >>

EquityInit ==
    /\ now = 0
    /\ RateIdle
    /\ FetchIdle
    /\ watchlist = [EmptyWatchlist EXCEPT !["u1"] = OnlyCommanded("label", "absent")]
    /\ upstream = OnlyCommanded(EquityStates[1], EquityStates[1])
    /\ \E first \in {EquityStates[1], ZeroState} :
           /\ previousStates = OnlyCommanded(first, NoEntry)
           /\ walletPnL = OnlyCommanded(NewWalletPnL(first.balance, 0), NoEntry)
    /\ tradeEventsByWallet = [a \in Addresses |-> <<>>]
    /\ ticks = [k \in TickIds |-> IdleTick]
    /\ adds = [u \in Users |-> NoEntry]
    /\ timers = FirstTimers
    /\ stats = [a \in Addresses |-> NoEntry]
    /\ counters = [ticks |-> 0, changes |-> 0, commands |-> 0,
                   closes |-> [a \in Addresses |-> 0],
                   seen |-> [a \in Addresses |-> 0]]

\* the positions source changes
EquityChange(a, s) ==
    /\ counters.changes < LedgerMaxChanges
    /\ EquityStates[s] # upstream[a]
    /\ upstream' = [upstream EXCEPT ![a] = EquityStates[s]]
    /\ counters' = [counters EXCEPT !.changes = @ + 1]
    /\ UNCHANGED <<now, rateVars, fetchVars, otherVars, watchlist, previousStates,
                   walletPnL, tradeEventsByWallet, ticks, adds>>

EquityNext ==
    \/ \E a \in Commanded, s \in 1..Len(EquityStates) : EquityChange(a, s)
    \/ LedgerTickStart
    \/ \E a \in Addresses, ok \in BOOLEAN : FetchDone(1, a, ok)
    \/ \E a \in Addresses : ChartDone(1, a, TRUE)
    \/ \E a \in Addresses : SendDone(1, a)
    \/ TickEnd(1)
    \/ LedgerAdvance
    \/ \E a \in Commanded : PnlCommand(a)

SpecEquity == EquityInit /\ [][EquityNext]_vars

\* the highest of the initial balance and the balances recorded up to record i
RunningPeak(entry, i) ==
    LET seen == {entry.initialBalance}
                    \cup {entry.balanceHistory[j].balance : j \in 1..i}
    IN  CHOOSE p \in seen : \A q \in seen : q <= p

\* the percentage drops of the recorded balances below their running peak
\* (there is none below a peak of 0), and no drop at all
Drops(entry) ==
    {ZERO} \cup
    {Quot((RunningPeak(entry, i) - entry.balanceHistory[i].balance) * 100,
          RunningPeak(entry, i)) :
        i \in {j \in 1..Len(entry.balanceHistory) : RunningPeak(entry, j) > 0}}

LargestDrop(entry) ==
    CHOOSE d \in Drops(entry) : \A e \in Drops(entry) : ~Greater(e, d)

\* C39: in the statistics of a wallet every record that is not a close or a
\* partial close is an open or an increase with pnl 0, so the equity at every
\* balance record is the recorded balance, and maxDrawdown is the largest
\* percentage drop of the balance below its running peak, the peak starting
\* at initialBalance.
C39_DrawdownOfBalance ==
    /\ \A a \in Addresses :
          walletPnL[a] # NoEntry =>
              \A i \in 1..Len(walletPnL[a].tradeHistory) :
                  LET t == walletPnL[a].tradeHistory[i]
                  IN  ~IsClosing(t) => t.type \in {"open", "increase"} /\ t.pnl = 0
    /\ \A a \in Addresses :
          (stats[a] # NoEntry /\ stats[a].kind = "stats") =>
              LET w == stats[a].wallet
              IN  /\ \A i \in 1..Len(w.balanceHistory) :
                         TotalValue(w.tradeHistory, w.balanceHistory[i])
                             = w.balanceHistory[i].balance
                  /\ stats[a].maxDrawdown = toFixed(LargestDrop(w), 2)

\* the statistics of a wallet with an open record, a closing record with a
\* gain, and a balance that fell below its peak
C39_Witness ==
    /\ stats["a1"] # NoEntry
    /\ stats["a1"].kind = "stats"
    /\ \E i, j \in 1..Len(stats["a1"].wallet.tradeHistory) :
           /\ stats["a1"].wallet.tradeHistory[i].type = "open"
           /\ IsClosing(stats["a1"].wallet.tradeHistory[j])
           /\ stats["a1"].wallet.tradeHistory[j].pnl > 0
    /\ stats["a1"].maxDrawdown.kind = "fixed"
    /\ stats["a1"].maxDrawdown.count > 0

\* --------------------------------------------------- side specification
\* One address added by /add while it held a BTC long of 10 at entry 5, then
\* watched, callbacks one at a time and every fetch and chart succeeding,
\* while the position changes its side, its unrealized P&L, its mark price
\* and its count of open orders, with and without a change of size or entry
\* price or of another position.
FullPos(sym, size, entry, sign, upnl, mark, orders) ==
    [symbol |-> sym, position |-> size, avg_entry_price |-> entry, sign |-> sign,
     unrealized_pnl |-> upnl, mark_price |-> mark, open_order_count |-> orders]

\* the long; the same as a short; the long with another unrealized P&L, mark
\* price, order count and balance; the long reduced; the long at another
\* entry price; the short with an ETH short opened beside it
SideStates ==
    << [balance |-> 10, positions |-> <<FullPos("BTC", 10, 5, 1, 100, 7, 0)>>],
       [balance |-> 10, positions |-> <<FullPos("BTC", 10, 5, -1, -100, 7, 0)>>],
       [balance |-> 12, positions |-> <<FullPos("BTC", 10, 5, 1, 40, 6, 2)>>],
       [balance |-> 10, positions |-> <<FullPos("BTC", 6, 5, 1, 60, 7, 0)>>],
       [balance |-> 10, positions |-> <<FullPos("BTC", 10, 6, 1, 100, 7, 0)>>],
       [balance |-> 10, positions |-> <<FullPos("BTC", 10, 5, -1, -100, 7, 0),
                                        FullPos("ETH", 1, 3, -1, -1, 0, 0)>>] >>

SideInit ==
    /\ now = 0
    /\ RateIdle
    /\ FetchIdle
    /\ watchlist = [EmptyWatchlist EXCEPT !["u1"] = OnlyCommanded("label", "absent")]
    /\ upstream = OnlyCommanded(SideStates[1], SideStates[1])
    /\ previousStates = OnlyCommanded(SideStates[1], NoEntry)
    /\ walletPnL = OnlyCommanded(NewWalletPnL(SideStates[1].balance, 0), NoEntry)
    /\ tradeEventsByWallet = [a \in Addresses |-> <<>>]
    /\ ticks = [k \in TickIds |-> IdleTick]
    /\ adds = [u \in Users |-> NoEntry]
    /\ timers = FirstTimers
    /\ stats = [a \in Addresses |-> NoEntry]
    /\ counters = [ticks |-> 0, changes |-> 0, commands |-> 0,
                   closes |-> [a \in Addresses |-> 0],
                   seen |-> [a \in Addresses |-> 0]]

\* the positions source changes
SideChange(a, s) ==
    /\ counters.changes < LedgerMaxChanges
    /\ SideStates[s] # upstream[a]
    /\ upstream' = [upstream EXCEPT ![a] = SideStates[s]]
    /\ counters' = [counters EXCEPT !.changes = @ + 1]
    /\ UNCHANGED <<now, rateVars, fetchVars, otherVars, watchlist, previousStates,
                   walletPnL, tradeEventsByWallet, ticks, adds>>

SideNext ==
    \/ \E a \in Commanded, s \in 1..Len(SideStates) : SideChange(a, s)
    \/ LedgerTickStart
    \/ \E a \in Addresses : FetchDone(1, a, TRUE)
    \/ \E a \in Addresses : ChartDone(1, a, TRUE)
    \/ \E a \in Addresses : SendDone(1, a)
    \/ TickEnd(1)

SpecSide == SideInit /\ [][SideNext]_vars

\* the symbol is in both snapshots with equal size and equal entry price
SameSizeAndEntry(oldPositions, newPositions, sym) ==
    /\ HasKey(oldPositions, sym)
    /\ HasKey(newPositions, sym)
    /\ Get(oldPositions, sym).position = Get(newPositions, sym).position
    /\ Get(oldPositions, sym).avg_entry_price
           = Get(newPositions, sym).avg_entry_price

\* the two snapshots hold the same symbols, each with equal size and entry
NothingButSide(oldPositions, newPositions) ==
    \A sym \in Symbols :
        \/ ~HasKey(oldPositions, sym) /\ ~HasKey(newPositions, sym)
        \/ SameSizeAndEntry(oldPositions, newPositions, sym)

\* C40: when the task of an address compares the stored snapshot with the
\* fetched one, a symbol in both with equal size and equal entry price gets
\* no event, whatever became of its side, unrealized P&L, mark price or
\* order count; and when no symbol differs otherwise the task ends at once:
\* no trade record, no chart event, no chart or message, the snapshot replaced.
C40_SideChangeSilent ==
    [][\A a \in Addresses :
          (/\ ticks[1].tasks[a].pc = "fetching"
           /\ ticks'[1].tasks[a] # ticks[1].tasks[a]
           /\ previousStates[a] # NoEntry)
          => LET oldPositions == previousStates[a].positions
                 newPositions == upstream[a].positions
             IN  /\ \A sym \in Symbols :
                        SameSizeAndEntry(oldPositions, newPositions, sym)
                            => EventsFor(comparePositions(previousStates[a],
                                                          upstream[a]), sym) = <<>>
                 /\ NothingButSide(oldPositions, newPositions)
                        => /\ walletPnL'[a] = walletPnL[a]
                           /\ tradeEventsByWallet'[a] = tradeEventsByWallet[a]
                           /\ ticks'[1].tasks[a].pc = "settled"
                           /\ previousStates'[a] = upstream[a]]_vars

\* the long became a short of the same size and entry price and a callback
\* stored it: the wallet has no trade record, no second balance record and
\* no chart event
C40_Witness ==
    /\ previousStates["a1"] = SideStates[2]
    /\ ~ticks[1].running
    /\ counters.ticks > 0
    /\ walletPnL["a1"] = NewWalletPnL(SideStates[1].balance, 0)
    /\ tradeEventsByWallet["a1"] = <<>>

====
